---- MODULE Spec2Model ----
(***************************************************************************)
(* The run executor, decision gate, child supervisor, autobuild loop and   *)
(* the cancel/decision request handlers of the orchestrator's main         *)
(* process.                                                                *)
(*                                                                         *)
(* The main process is single-threaded: a handler runs without             *)
(* interruption from one `await` to the next.  Every action below is one   *)
(* such segment: it starts where a promise settles (or a request, timer    *)
(* or child event arrives) and runs to the next `await` or to the end of   *)
(* the handler.  A file-system operation takes effect at the point where   *)
(* its promise settles.                                                    *)
(*                                                                         *)
(* Spec is the behaviour with plans of notes and commands (an executor     *)
(* step names a tool that is not allowlisted and is blocked); ExecutorSpec *)
(* is the behaviour with plans that run the allowlisted tool: baseline,    *)
(* exec and apply children, evaluation, no-op audit and retry.  PolicySpec  *)
(* offers one plan to generatePlan's validation and to runPlan and records *)
(* what each of them does with it; PlannerSpec is one call of              *)
(* generatePlanFromRequirement with the answers of the completion          *)
(* endpoint.  FailureSpec is Spec with a file system whose writes can      *)
(* fail, and LiveSpec is one run of the front-end under fairness.          *)
(***************************************************************************)
EXTENDS Integers, Sequences, FiniteSets, TLC

\* ---------------------------------------------------------------- bounds
MaxRuns == 2        \* runPlanInternal invocations in one behaviour
MaxSteps == 2       \* steps of a plan
MaxTotalSteps == 2  \* steps of all the plans of one behaviour
MaxCancels == 1     \* run:cancel and autobuild:cancel requests in one behaviour
MaxDecisions == 1   \* run:decision requests in one behaviour
MaxIterations == 2  \* maxIterations of an autobuild:start request
MaxRequests == 3    \* requests of the renderer in one behaviour
MaxStarts == 1      \* autobuild:start requests in one behaviour
\* The same, for the behaviours in which plans run the executor tool.
XMaxSteps == 3
XMaxTotalSteps == 3
XMaxCancels == 1
XMaxIterations == 2
XMaxRequests == 2
XMaxStarts == 2
MaxChildren == 4 * XMaxSteps   \* children of one invocation: four to an executor step
\* The plans offered to generatePlan and runPlan in the behaviours of PolicySpec.
MaxPlanLen == 9     \* steps of a plan of notes and one allowed command
MaxShortLen == 2    \* steps of a plan of any of the commands

Runs == 1..MaxRuns
RunIds == 1..MaxRuns          \* values of Date.now() used as run ids
Subs == 1..MaxDecisions
None == 0

\* ------------------------------------------------------- command policy
\* Command strings are sequences of characters.
GitStatus == <<"g","i","t"," ","s","t">>
GitGrep == <<"g","i","t"," ","g","r","e","p"," ","X">>
RmRf == <<"r","m"," ","-","r","f">>
GitLogAnd == <<"g","i","t"," ","l","&","&","l","s">>
Commands == {GitStatus, GitGrep, RmRf, GitLogAnd}
GIT_GREP == <<"g","i","t"," ","g","r","e","p">>
CLEAR_LOGS == <<"C","l","e","a","r"," ","L","o","g","s">>
APP_TSX == <<"s","r","c","/","r","e","n","d","e","r","e","r","/","A","p","p",".","t","s","x">>
PrecheckGrep == GIT_GREP \o <<" ">> \o CLEAR_LOGS \o <<" ">> \o APP_TSX

ALLOWED_COMMAND_PREFIXES == {<<"g","i","t">>}
ALLOWED_EXECUTOR_TOOLS == {"codex"}
ExecutorTools == {"codex", "claude_code"}
DEPENDENCY_FILES == {"package.json", "package-lock.json", "yarn.lock", "pnpm-lock.yaml"}

startsWith(str, prefix) ==
    /\ Len(prefix) <= Len(str)
    /\ SubSeq(str, 1, Len(prefix)) = prefix

includes(str, op) ==
    \E i \in 1..Len(str) :
        /\ i + Len(op) - 1 <= Len(str)
        /\ SubSeq(str, i, i + Len(op) - 1) = op

isCommandAllowed(command) ==
    \E prefix \in ALLOWED_COMMAND_PREFIXES : startsWith(command, prefix)

isExecutorToolAllowed(tool) == tool \in ALLOWED_EXECUTOR_TOOLS

hasForbiddenShellOperators(command) ==
    \E op \in {<<"|","|">>, <<"&","&">>, <<"|">>, <<">">>, <<"<">>, <<";">>,
               <<"$","(">>, <<"BACKTICK">>} : includes(command, op)

\* String.prototype.trim, for the white space of the commands offered.
RECURSIVE trimStart(_)
trimStart(str) ==
    IF str # << >> /\ Head(str) = " " THEN trimStart(Tail(str)) ELSE str

RECURSIVE trimEnd(_)
trimEnd(str) ==
    IF str # << >> /\ str[Len(str)] = " " THEN trimEnd(SubSeq(str, 1, Len(str) - 1))
    ELSE str

trim(str) == trimEnd(trimStart(str))

\* The command of a cmd step is the precheck of the executor step after it.
isPrecheck(command) ==
    /\ startsWith(command, GIT_GREP)
    /\ includes(command, CLEAR_LOGS)
    /\ includes(command, APP_TSX)

\* A changed path is a sequence of path segments; git prints one per line.
parseNameOnly(value) == value

\* current.filter(file => !baselineSet.has(file))
RECURSIVE diffFromBaseline(_, _)
diffFromBaseline(baseline, current) ==
    IF current = << >> THEN << >>
    ELSE LET rest == diffFromBaseline(baseline, Tail(current)) IN
         IF \E i \in 1..Len(baseline) : baseline[i] = Head(current) THEN rest
         ELSE <<Head(current)>> \o rest

RECURSIVE matchDependencyFiles(_)
matchDependencyFiles(files) ==
    IF files = << >> THEN << >>
    ELSE LET file == Head(files)
             rest == matchDependencyFiles(Tail(files))
         IN  IF file[Len(file)] \in DEPENDENCY_FILES THEN <<file>> \o rest ELSE rest

\* What collectGitEvidence can return: an error, or the name-only output.
NoEvidence == [error |-> FALSE, files |-> << >>]
EvidenceOutcomes ==
    { [error |-> TRUE, files |-> << >>],
      NoEvidence,
      [error |-> FALSE, files |-> << <<"src", "a.ts">> >>],
      [error |-> FALSE, files |-> << <<"sub", "package.json">> >>] }
\* What runCommandCapture("git", ["diff", "--name-only"]) can resolve with.
DiffOutcomes ==
    { [code |-> 1, stdout |-> << >>],
      [code |-> 0, stdout |-> << >>],
      [code |-> 0, stdout |-> << <<"src", "a.ts">> >>] }

\* ------------------------------------------------------------- the plan
\* The steps of a plan: notes, commands and executor steps.
Steps ==
    {[type |-> "note", command |-> << >>, tool |-> ""]}
    \cup {[type |-> "cmd", command |-> c, tool |-> ""] : c \in Commands \cup {PrecheckGrep}}
    \cup {[type |-> "executor", command |-> << >>, tool |-> t] : t \in ExecutorTools}
NoStep == [type |-> "none", command |-> << >>, tool |-> ""]
\* The steps generatePlanFromRequirement lets through: validateGeneratedPlan
\* and planHasForbiddenCmdOps.
GeneratedSteps ==
    {st \in Steps : st.type = "cmd" => /\ isCommandAllowed(st.command)
                                       /\ ~hasForbiddenShellOperators(st.command)}

NoDecision == [result |-> "none", files |-> << >>]
NoFile == [exists |-> FALSE]
NoChild == [n |-> 0, alive |-> FALSE, killed |-> FALSE, term |-> FALSE,
            hard |-> FALSE, group |-> FALSE]
NoActiveRun == [cid |-> <<0, 0>>, runId |-> 0, cancelled |-> FALSE,
                timedOut |-> FALSE, killGroup |-> FALSE]
NoPending == [owner |-> 0, at |-> 0, files |-> << >>, waiting |-> FALSE]
\* A step record; evidence is kept as the dependency files the gate reads
\* from it, and whether it was collected at all.
NoRetryResult == [present |-> FALSE, exit_code |-> 0, current_files |-> << >>,
                  changed_files |-> << >>, has_changes |-> FALSE]
\* The evaluation of an executor step; a flag that is not set reads FALSE.
NoEvaluation == [present |-> FALSE, baseline_files |-> << >>, current_files |-> << >>,
                 changed_files |-> << >>, has_changes |-> FALSE, retried |-> FALSE,
                 suspicious_no_change |-> FALSE, no_op |-> FALSE,
                 retry_result |-> NoRetryResult]
\* What runExecutorStreaming or runCommandStreaming resolves with.
NoResult == [exitCode |-> 0, cancelled |-> FALSE, timedOut |-> FALSE]
NoStepMeta == [step_index |-> 0, type |-> "none", exit_code |-> 0, cancelled |-> FALSE,
               timeout |-> FALSE, blocked_by_policy |-> FALSE, has_evidence |-> FALSE,
               evaluation |-> NoEvaluation]
InitRunMeta == [exists |-> TRUE, steps |-> << >>, decision |-> NoDecision,
                decision_pending |-> FALSE, endTime |-> FALSE, exitCode |-> 0,
                blocked_by_policy |-> FALSE, timeout |-> FALSE, cancelled |-> FALSE,
                cancelled_by_decision |-> FALSE]
\* validateGeneratedPlan(plan): the issues it collects; it throws when there
\* is one.
validateGeneratedPlan(plan) ==
    LET cmds == {i \in 1..Len(plan) : plan[i].type = "cmd"} IN
    (IF Len(plan) > 8 THEN {"plan must have at most 8 steps"} ELSE {})
    \cup (IF ~\E i \in 1..Len(plan) : plan[i].type = "note"
          THEN {"plan must include at least 1 note step"} ELSE {})
    \cup {"cmd.command cannot be empty" : i \in {j \in cmds : trim(plan[j].command) = << >>}}
    \cup {"cmd.command not allowed" :
            i \in {j \in cmds : /\ trim(plan[j].command) # << >>
                                /\ ~isCommandAllowed(trim(plan[j].command))}}

planHasForbiddenCmdOps(plan) ==
    \E i \in 1..Len(plan) :
        plan[i].type = "cmd" /\ hasForbiddenShellOperators(plan[i].command)

\* The commands of the plans offered in the behaviours of PolicySpec.
GitxStatus == <<"g","i","t","x"," ","s","t">>
SpGitStatus == <<" "," ">> \o GitStatus
Blank == <<" ">>
PolicyCommands == Commands \cup {GitxStatus, SpGitStatus, Blank, << >>}
\* Plans of up to MaxPlanLen notes and git status commands, and plans of up
\* to MaxShortLen steps with any of the commands.
LongPlanSteps ==
    {[type |-> "note", command |-> << >>, tool |-> ""],
     [type |-> "cmd", command |-> GitStatus, tool |-> ""]}
ShortPlanSteps ==
    {[type |-> "note", command |-> << >>, tool |-> ""]}
    \cup {[type |-> "cmd", command |-> c, tool |-> ""] : c \in PolicyCommands}
Plans ==
    UNION {[1..k -> LongPlanSteps] : k \in 0..MaxPlanLen}
    \cup UNION {[1..k -> ShortPlanSteps] : k \in 0..MaxShortLen}

\* One invocation of runPlanInternal: where it is suspended (pc), its
\* arguments, and its local variables.
NoInvocation ==
    [pc |-> "idle", mode |-> "sync", err |-> "", runId |-> 0, total |-> 0,
     index |-> 0, step |-> NoStep, stepMeta |-> NoStepMeta, evidence |-> NoEvidence,
     runMeta |-> InitRunMeta,
     lastExitCode |-> 0, blockedByPolicy |-> FALSE, timedOut |-> FALSE,
     cancelled |-> FALSE, cancelledByDecision |-> FALSE, decisionPending |-> FALSE,
     decisionResult |-> "none", nchild |-> 0,
     lastPrecheckHit |-> FALSE, lastExecutorEvaluation |-> NoEvaluation,
     baselineFiles |-> << >>, evaluation |-> NoEvaluation, result |-> NoResult,
     grepHit |-> FALSE]
NoSub == [pc |-> "idle", runId |-> 0, result |-> "none", pending |-> NoPending,
          existing |-> NoFile, ret |-> "none"]
NoCancelResp == [runId |-> 0, ok |-> FALSE]
\* The invocation of the autobuild:start handler.
NoAutobuild == [pc |-> "idle", iteration |-> 0, maxIterations |-> 0, iterationsRun |-> 0,
                stopReason |-> "none", err |-> "", sent |-> << >>]

\* A plan offered to generatePlan and to runPlan: what the planner returned
\* (generated), where runPlanInternal is with it (pc, index) and what became
\* of each step it reached (outcome).  For a call of
\* generatePlanFromRequirement: its loop variable (attempt), the user prompts
\* of the requests it has sent to the completion endpoint (calls), what came
\* back (responses) and the error it has thrown.
NoPolicy == [pc |-> "idle", plan |-> << >>, generated |-> "none", index |-> 0,
             outcome |-> << >>, attempt |-> 0, calls |-> << >>, responses |-> << >>,
             error |-> ""]
\* What the completion endpoint can answer: a status that is not ok, a body
\* without content, content that is not JSON, JSON that is not a TaskPlan, or
\* a TaskPlan.
Responses ==
    {[kind |-> k, plan |-> << >>] : k \in {"http_error", "empty", "not_json", "not_a_plan"}}
    \cup {[kind |-> "plan", plan |-> plan] : plan \in Plans}

\* What the renderer, the planner and the tools do in the behaviours of Spec:
\* how many requests of each kind, the steps the plans are made of, whether
\* the children write to stdout or stderr while they run (chunks), whether a
\* writeFile of run.json can reject (failures) and what the git commands print.
\* Executor steps name a tool that is not allowlisted.
RunEnv ==
    [requests |-> MaxRequests, steps |-> MaxSteps, totalSteps |-> MaxTotalSteps,
     cancels |-> MaxCancels, iterations |-> MaxIterations, starts |-> MaxStarts,
     plans |-> MaxRuns, commands |-> Commands,
     tools |-> ExecutorTools \ ALLOWED_EXECUTOR_TOOLS, stdout |-> {FALSE},
     chunks |-> TRUE, failures |-> FALSE, evidence |-> EvidenceOutcomes,
     diffs |-> DiffOutcomes]
\* The same in the behaviours of ExecutorSpec: plans are made of notes, grep
\* commands and executor steps of the allowlisted tool.  The behaviours are
\* those of the environments ExecutorEnvs, each a part of ExecutorEnv.
ExecutorEnv ==
    [requests |-> XMaxRequests, steps |-> XMaxSteps, totalSteps |-> XMaxTotalSteps,
     cancels |-> XMaxCancels, iterations |-> XMaxIterations, starts |-> XMaxStarts,
     plans |-> MaxRuns, commands |-> {GitGrep, PrecheckGrep},
     tools |-> ALLOWED_EXECUTOR_TOOLS, stdout |-> BOOLEAN,
     chunks |-> TRUE, failures |-> FALSE, evidence |-> EvidenceOutcomes,
     diffs |-> DiffOutcomes]
\* One request: a run:plan or an autobuild:start.
OneRequest == [ExecutorEnv EXCEPT !.requests = 1]
\* A run:plan and a cancel.
RunAndCancel ==
    [ExecutorEnv EXCEPT !.plans = 1, !.starts = 0, !.steps = 2, !.totalSteps = 2]
\* An autobuild:start and a cancel.
AutobuildAndCancel ==
    [ExecutorEnv EXCEPT !.plans = 0, !.starts = 1, !.steps = 2, !.totalSteps = 2]
\* Two autobuild:start requests.
TwoStarts ==
    [ExecutorEnv EXCEPT !.plans = 0, !.cancels = 0, !.steps = 2, !.totalSteps = 2]
\* Two requests that start a run each, of one step; the tool changes a file.
TwoRuns ==
    [ExecutorEnv EXCEPT !.cancels = 0, !.starts = 1, !.steps = 1, !.totalSteps = 2,
                        !.commands = {GitGrep}, !.stdout = {FALSE},
                        !.evidence = {[error |-> FALSE, files |-> << <<"src", "a.ts">> >>]},
                        !.diffs = {[code |-> 0, stdout |-> << >>]}]
\* Two run:plan requests, with plans of notes and searches that find and
\* print nothing.
TwoSearches ==
    [ExecutorEnv EXCEPT !.cancels = 0, !.starts = 0, !.steps = 2,
                        !.commands = {GitGrep}, !.tools = {}, !.stdout = {FALSE},
                        !.chunks = FALSE, !.evidence = {NoEvidence},
                        !.diffs = {[code |-> 0, stdout |-> << >>]}]
\* The behaviours of two requests in which a writeFile of run.json can reject.
WriteFailures == [RunEnv EXCEPT !.requests = 2, !.failures = TRUE]
\* One run:plan request and one more request: a cancel or a decision.
OneRun == [RunEnv EXCEPT !.requests = 2, !.plans = 1, !.starts = 0]
ExecutorEnvs == {OneRequest, RunAndCancel, AutobuildAndCancel, TwoStarts, TwoRuns,
                 TwoSearches}

VARIABLES
    inv,              \* the invocations of runPlanInternal
    activePlan,       \* activePlan: the invocation whose ActivePlan object it holds
    planCancelled,    \* cancelled of each invocation's ActivePlan object
    activeRun,        \* activeRun
    child,            \* per invocation: the child process it supervises
    timeoutTimers,    \* children whose RUN_TIMEOUT_MS timer is armed
    killTimers,       \* children whose kill-grace timer is armed
    pendingDecisions, \* pendingDecisions, by runId
    disk,             \* <runs-root>/<runId>/run.json, by runId
    events,           \* what was sent on the event channel, by runId
    clock,            \* Date.now()
    sub,              \* the invocations of the run:decision handler
    cancels,          \* run:cancel and autobuild:cancel requests so far
    cancelResp,       \* the last run:cancel request and its response
    autobuildActive,  \* autobuildActive
    autobuildCancelled, \* autobuildCancelled
    ab,               \* the last admitted invocation of the autobuild:start handler
    starts,           \* autobuild:start requests so far
    startResp,        \* what the last autobuild:start request was answered at once
    env,              \* what the environment does in this behaviour
    policy            \* a plan under the plan policy: generatePlan and runPlan

vars == <<inv, activePlan, planCancelled, activeRun, child, timeoutTimers, killTimers,
          pendingDecisions, disk, events, clock, sub, cancels, cancelResp,
          autobuildActive, autobuildCancelled, ab, starts, startResp, env, policy>>
abVars == <<autobuildActive, autobuildCancelled, ab, starts, startResp>>

\* The module state after construction, in an environment e.
Constructed(e) ==
    /\ env = e
    /\ inv = [s \in Runs |-> NoInvocation]
    /\ activePlan = None
    /\ planCancelled = [s \in Runs |-> FALSE]
    /\ activeRun = NoActiveRun
    /\ child = [s \in Runs |-> NoChild]
    /\ timeoutTimers = {}
    /\ killTimers = {}
    /\ pendingDecisions = [r \in RunIds |-> NoPending]
    /\ disk = [r \in RunIds |-> NoFile]
    /\ events = [r \in RunIds |-> << >>]
    /\ clock = 1
    /\ sub = [d \in Subs |-> NoSub]
    /\ cancels = 0
    /\ cancelResp = NoCancelResp
    /\ autobuildActive = FALSE
    /\ autobuildCancelled = FALSE
    /\ ab = NoAutobuild
    /\ starts = 0
    /\ startResp = "none"

\* The state after construction: no plan has been offered yet.
Started(e) == Constructed(e) /\ policy = NoPolicy

Init == Started(RunEnv)
FailureInit == Started(WriteFailures)
LiveInit == Started(OneRun)
ExecutorInit == \E e \in ExecutorEnvs : Started(e)

\* ------------------------------------------------------------ helpers
\* sender.send(name, {runId, ...}): the events of one runId, in order.
\* A run of consecutive equal events (the run:output lines of one step) is
\* recorded once.
Emit(ev, name, n) ==
    IF ev # << >> /\ ev[Len(ev)] = <<name, n>> THEN ev ELSE Append(ev, <<name, n>>)

\* What a segment of runPlanInternal leaves behind: the invocation record,
\* the events of its runId, its child, activeRun and the timeout timers.
Out(r, ev, ch, ar, tt) == [r |-> r, ev |-> ev, ch |-> ch, ar |-> ar, tt |-> tt]

\* An invocation that has returned or thrown: its locals are gone.
Ended(r, pc, err) ==
    [NoInvocation EXCEPT !.pc = pc, !.err = err, !.mode = r.mode, !.runId = r.runId,
                         !.total = r.total]

\* The loop is left (break, or index = plan.steps.length): endTime is taken
\* and the final mergeDecisionFromDisk is awaited.
FinalStart(r) ==
    [r EXCEPT !.pc = "fmerge", !.step = NoStep, !.stepMeta = NoStepMeta,
              !.evidence = NoEvidence, !.decisionResult = "none",
              !.lastPrecheckHit = FALSE, !.grepHit = FALSE]

\* Blocked, leaving lastExitCode as the step before left it.
Blocked_KeepsExitCode(r, ev, ch, ar, tt) ==
    Out([r EXCEPT !.stepMeta.blocked_by_policy = TRUE, !.stepMeta.exit_code = -1,
                  !.blockedByPolicy = TRUE, !.pc = "evidence"],
        Emit(ev, "output", r.index), ch, ar, tt)

\* A step blocked by policy: flagged, then evidence is collected.
Blocked(r, ev, ch, ar, tt) ==
    Out([r EXCEPT !.stepMeta.blocked_by_policy = TRUE, !.stepMeta.exit_code = -1,
                  !.blockedByPolicy = TRUE, !.lastExitCode = -1, !.pc = "evidence"],
        Emit(ev, "output", r.index), ch, ar, tt)

\* runCommandStreaming up to its promise: the child is spawned, its timeout
\* timer armed and activeRun overwritten.
Spawn(s, r, ev, ar, tt, killGroup) ==
    LET n == r.nchild + 1 IN
    Out([r EXCEPT !.nchild = n, !.pc = "child"],
        ev,
        [NoChild EXCEPT !.n = n, !.alive = TRUE, !.group = killGroup],
        [cid |-> <<s, n>>, runId |-> r.runId, cancelled |-> FALSE,
         timedOut |-> FALSE, killGroup |-> killGroup],
        tt \cup {<<s, n>>})

\* Dispatch without the send of run:step.
Dispatch_NoStepEvent(s, r0, st, ev0, ch, ar, tt) ==
    LET ev == ev0
        sm == [NoStepMeta EXCEPT !.step_index = r0.index, !.type = st.type]
        r == [r0 EXCEPT !.step = st, !.stepMeta = sm, !.evidence = NoEvidence,
                        !.decisionResult = "none"]
    IN  CASE st.type = "note" ->
               Out([r EXCEPT !.runMeta.steps = Append(@, sm), !.step = NoStep,
                             !.lastPrecheckHit = FALSE, !.grepHit = FALSE,
                             !.pc = "write_note"],
                   Emit(ev, "output", r.index), ch, ar, tt)
          [] st.type = "executor" ->
               IF ~isExecutorToolAllowed(st.tool) THEN Blocked(r, ev, ch, ar, tt)
               ELSE Out([r EXCEPT !.pc = "baseline"], ev, ch, ar, tt)
          [] OTHER ->
               IF ~isCommandAllowed(st.command) THEN Blocked(r, ev, ch, ar, tt)
               ELSE IF hasForbiddenShellOperators(st.command) THEN Blocked(r, ev, ch, ar, tt)
               ELSE Spawn(s, r, Emit(ev, "output", r.index), ar, tt, FALSE)

\* The body of the for loop for plan.steps[r.index] = st, up to its first await.
Dispatch(s, r0, st, ev0, ch, ar, tt) ==
    LET ev == Emit(ev0, "step", r0.index)
        sm == [NoStepMeta EXCEPT !.step_index = r0.index, !.type = st.type]
        r == [r0 EXCEPT !.step = st, !.stepMeta = sm, !.evidence = NoEvidence,
                        !.decisionResult = "none"]
    IN  CASE st.type = "note" ->
               Out([r EXCEPT !.runMeta.steps = Append(@, sm), !.step = NoStep,
                             !.lastPrecheckHit = FALSE, !.grepHit = FALSE,
                             !.pc = "write_note"],
                   Emit(ev, "output", r.index), ch, ar, tt)
          [] st.type = "executor" ->
               IF ~isExecutorToolAllowed(st.tool) THEN Blocked(r, ev, ch, ar, tt)
               ELSE Out([r EXCEPT !.pc = "baseline"], ev, ch, ar, tt)
          [] OTHER ->
               IF ~isCommandAllowed(st.command) THEN Blocked(r, ev, ch, ar, tt)
               ELSE IF hasForbiddenShellOperators(st.command) THEN Blocked(r, ev, ch, ar, tt)
               ELSE Spawn(s, r, Emit(ev, "output", r.index), ar, tt, FALSE)

\* What plan.steps[r.index] can be.  The plan of a run:plan request is the
\* renderer's; the plan of an autobuild iteration has passed
\* validateGeneratedPlan, so the last step is a note if none came before.
Offered ==
    {st \in Steps : /\ st.type = "cmd" => st.command \in env.commands
                    /\ st.type = "executor" => st.tool \in env.tools}

PlanSteps(r) ==
    IF r.mode = "sync" THEN Offered
    ELSE {st \in Offered \cap GeneratedSteps :
            (r.index = r.total /\ \A i \in 1..Len(r.runMeta.steps) :
                                     r.runMeta.steps[i].type # "note")
               => st.type = "note"}

\* The head of the for loop with index already advanced: the loop condition,
\* the check of activePlan.cancelled, then the step.  ap and pcanc are
\* activePlan and the cancelled flags as the segment has left them.
LoopTop(s, r, ev, ch, ar, tt, ap, pcanc) ==
    IF r.index > r.total THEN {Out(FinalStart(r), ev, ch, ar, tt)}
    ELSE IF ap = None
         THEN {Out(Ended(r, "crashed", "TypeError"), ev, ch, ar, tt)}
    ELSE IF pcanc[ap]
         THEN {Out(FinalStart([r EXCEPT !.cancelled = TRUE, !.lastExitCode = -1]),
                   ev, ch, ar, tt)}
    ELSE {Dispatch(s, r, st, ev, ch, ar, tt) : st \in PlanSteps(r)}

\* maybeRequestDecision up to its return or its promise: the dependency
\* files among the changed ones.
GateFiles(evidence) ==
    IF evidence.error THEN << >>
    ELSE matchDependencyFiles(parseNameOnly(evidence.files))

\* mergeDecisionFromDisk
mergeDecisionFromDisk(file, meta) ==
    IF file.exists /\ file.decision # NoDecision
    THEN [meta EXCEPT !.decision = file.decision]
    ELSE meta

\* terminateProcess(child, killGroup) on the children: SIGTERM to the child
\* (child.kill sets child.killed) or to its group (it does not).
terminateProcess(children, cid) ==
    LET c == children[cid[1]] IN
    IF c.alive /\ c.n = cid[2]
    THEN [children EXCEPT ![cid[1]] =
             [c EXCEPT !.term = TRUE, !.killed = c.killed \/ ~c.group]]
    ELSE children

armKillTimer(children, cid) ==
    IF children[cid[1]].alive /\ children[cid[1]].n = cid[2] THEN {cid} ELSE {}

\* pending.resolve(result): the promise the owner awaits, if it still does.
resolveDecision(invs, pending, result) ==
    IF /\ pending.waiting
       /\ invs[pending.owner].pc = "decision"
       /\ invs[pending.owner].index = pending.at
    THEN [invs EXCEPT ![pending.owner].pc = "merge",
                      ![pending.owner].decisionResult = result]
    ELSE invs

\* ------------------------------------------------- autobuild controller
\* The loop of autobuild:start is left: finally resets the two flags, and
\* autobuild:done { stop_reason, iterations_run } is sent.
AbStop(a, reason) ==
    [a EXCEPT !.pc = "done", !.stopReason = reason,
              !.sent = Append(@, <<"done", a.iterationsRun, reason>>)]

\* event.sender.send of autobuild:status { iteration, phase, message } or
\* autobuild:plan { iteration }.
AbSend(a, name, what) == [a EXCEPT !.sent = Append(@, <<name, a.iteration, what>>)]

\* generatePlanFromRequirement has thrown, and the error leaves the handler.
PlanningFailed_Throws(a) == [a EXCEPT !.pc = "threw", !.err = "Planning failed"]

\* generatePlanFromRequirement has thrown: the catch of the loop.
PlanningFailed(a) == AbStop(AbSend(a, "status", "Planning failed"), "planning_failed")

\* The head of the loop of autobuild:start, up to the await of
\* generatePlanFromRequirement.
AbLoopHead(a, cancelledFlag) ==
    IF cancelledFlag THEN AbStop(a, "cancelled")
    ELSE AbSend([a EXCEPT !.pc = "planning"], "status", "planning")

\* AbAfterRun without the test of result.decisionPending.
AbAfterRun_IgnoresPending(a0, r, cancelledFlag) ==
    LET a == [a0 EXCEPT !.iterationsRun = @ + 1]
        next == AbLoopHead([a EXCEPT !.iteration = @ + 1], cancelledFlag)
        said(what) == AbSend(a, "status", what)
        evaluation == r.lastExecutorEvaluation
        retryHasChanges == evaluation.retry_result.present
                           /\ evaluation.retry_result.has_changes
    IN  IF r.cancelled THEN AbStop(said("Cancelled"), "cancelled")
        ELSE IF evaluation.no_op THEN AbStop(said("No-op detected"), "no_op")
        ELSE IF evaluation.suspicious_no_change /\ evaluation.retried /\ ~retryHasChanges
        THEN AbStop(said("Retry produced no changes"), "retry_no_change")
        ELSE IF r.lastExitCode # 0
        THEN IF a.iteration < a.maxIterations THEN next
             ELSE AbStop(said("Run failed"), "failed")
        ELSE IF a.iteration >= a.maxIterations
        THEN AbStop(said("Max iterations reached"), "max_iterations_reached")
        ELSE next

\* AbAfterRun with the exit code tested before the evaluation.
AbAfterRun_ExitCodeFirst(a0, r, cancelledFlag) ==
    LET a == [a0 EXCEPT !.iterationsRun = @ + 1]
        next == AbLoopHead([a EXCEPT !.iteration = @ + 1], cancelledFlag)
        said(what) == AbSend(a, "status", what)
        evaluation == r.lastExecutorEvaluation
        retryHasChanges == evaluation.retry_result.present
                           /\ evaluation.retry_result.has_changes
    IN  IF r.decisionPending THEN AbStop(said("Decision pending"), "decision_pending")
        ELSE IF r.cancelled THEN AbStop(said("Cancelled"), "cancelled")
        ELSE IF r.lastExitCode # 0
        THEN IF a.iteration < a.maxIterations THEN next
             ELSE AbStop(said("Run failed"), "failed")
        ELSE IF evaluation.no_op THEN AbStop(said("No-op detected"), "no_op")
        ELSE IF evaluation.suspicious_no_change /\ evaluation.retried /\ ~retryHasChanges
        THEN AbStop(said("Retry produced no changes"), "retry_no_change")
        ELSE IF a.iteration >= a.maxIterations
        THEN AbStop(said("Max iterations reached"), "max_iterations_reached")
        ELSE next

\* AbAfterRun going on to the next iteration after a failed run whatever the
\* iteration.
AbAfterRun_NoIterationBound(a0, r, cancelledFlag) ==
    LET a == [a0 EXCEPT !.iterationsRun = @ + 1]
        next == AbLoopHead([a EXCEPT !.iteration = @ + 1], cancelledFlag)
        said(what) == AbSend(a, "status", what)
        evaluation == r.lastExecutorEvaluation
        retryHasChanges == evaluation.retry_result.present
                           /\ evaluation.retry_result.has_changes
    IN  IF r.decisionPending THEN AbStop(said("Decision pending"), "decision_pending")
        ELSE IF r.cancelled THEN AbStop(said("Cancelled"), "cancelled")
        ELSE IF evaluation.no_op THEN AbStop(said("No-op detected"), "no_op")
        ELSE IF evaluation.suspicious_no_change /\ evaluation.retried /\ ~retryHasChanges
        THEN AbStop(said("Retry produced no changes"), "retry_no_change")
        ELSE IF r.lastExitCode # 0 THEN next
        ELSE IF a.iteration >= a.maxIterations
        THEN AbStop(said("Max iterations reached"), "max_iterations_reached")
        ELSE next

\* runPlanInternal has returned r to the loop of autobuild:start: the result
\* is classified, first match first.
AbAfterRun(a0, r, cancelledFlag) ==
    LET a == [a0 EXCEPT !.iterationsRun = @ + 1]
        next == AbLoopHead([a EXCEPT !.iteration = @ + 1], cancelledFlag)
        said(what) == AbSend(a, "status", what)
        evaluation == r.lastExecutorEvaluation
        retryHasChanges == evaluation.retry_result.present
                           /\ evaluation.retry_result.has_changes
    IN  IF r.decisionPending THEN AbStop(said("Decision pending"), "decision_pending")
        ELSE IF r.cancelled THEN AbStop(said("Cancelled"), "cancelled")
        ELSE IF evaluation.no_op THEN AbStop(said("No-op detected"), "no_op")
        ELSE IF evaluation.suspicious_no_change /\ evaluation.retried /\ ~retryHasChanges
        THEN AbStop(said("Retry produced no changes"), "retry_no_change")
        ELSE IF r.lastExitCode # 0
        THEN IF a.iteration < a.maxIterations THEN next
             ELSE AbStop(said("Run failed"), "failed")
        ELSE IF a.iteration >= a.maxIterations
        THEN AbStop(said("Max iterations reached"), "max_iterations_reached")
        ELSE next

\* The autobuild:start handler moves to a: the flags follow.
AbSet(a) ==
    /\ ab' = a
    /\ UNCHANGED <<starts, startResp>>
    /\ autobuildActive' = (a.pc \in {"planning", "running"})
    /\ autobuildCancelled' = IF a.pc \in {"planning", "running"} THEN autobuildCancelled
                             ELSE FALSE

\* runPlanInternal has thrown err to its caller: a run:plan request is
\* rejected, autobuild:start leaves through finally and is rejected.
Thrown(r, err) ==
    IF r.mode = "async" THEN AbSet([ab EXCEPT !.pc = "threw", !.err = err])
    ELSE UNCHANGED abVars

\* The effect of a segment of invocation s on the shared variables.
Apply(s, o) ==
    /\ inv' = [inv EXCEPT ![s] = o.r]
    /\ events' = [events EXCEPT ![o.r.runId] = o.ev]
    /\ child' = [child EXCEPT ![s] = o.ch]
    /\ activeRun' = o.ar
    /\ timeoutTimers' = o.tt
    /\ IF o.r.pc = "crashed" THEN Thrown(o.r, o.r.err) ELSE UNCHANGED abVars

\* ------------------------------------------------- run executor: actions
\* The steps of the plans handed to the invocations S so far.
RECURSIVE PlannedSteps(_)
PlannedSteps(S) ==
    IF S = {} THEN 0
    ELSE LET s == CHOOSE x \in S : TRUE IN inv[s].total + PlannedSteps(S \ {s})

\* The requests the renderer has issued so far.
Requests ==
    Cardinality({s \in Runs : inv[s].pc # "idle" /\ inv[s].mode = "sync"})
    + Cardinality({d \in Subs : sub[d].pc # "idle"})
    + cancels + starts

\* The next invocation of runPlanInternal.
Free(s) == inv[s].pc = "idle" /\ (IF s = 1 THEN TRUE ELSE inv[s - 1].pc # "idle")

\* runPlanInternal(sender, payload, options) up to the await of isGitRepo.
Preflight(r, workspacePath, n, mode) ==
    LET r1 == [r EXCEPT !.mode = mode] IN
    IF activePlan # None THEN Ended(r1, "refused", "Another run is already active")
    ELSE IF workspacePath = "" THEN Ended(r1, "refused", "Workspace not set")
    ELSE IF n = 0 THEN Ended(r1, "refused", "Plan is empty")
    ELSE [r1 EXCEPT !.pc = "admit_repo", !.total = n]

\* Date.now() while isGitRepo runs: the check takes longer than a millisecond, so
\* a runId made before the call is in the past when it settles.
Elapsed(r) ==
    IF r.pc = "admit_repo" /\ \E s \in Runs : inv[s].runId = clock THEN clock + 1
    ELSE clock

\* ipcMain.handle("run:plan") calls runPlanInternal with awaitDecision.
RunPlan(s) ==
    /\ Free(s)
    /\ Cardinality({t \in Runs : inv[t].pc # "idle" /\ inv[t].mode = "sync"}) < env.plans
    /\ Requests < env.requests
    /\ \E workspacePath \in {"", "ws"}, n \in 0..env.steps :
         /\ n <= env.totalSteps - PlannedSteps(Runs)
         /\ LET r == Preflight(inv[s], workspacePath, n, "sync") IN
            /\ inv' = [inv EXCEPT ![s] = r]
            /\ clock' = Elapsed(r)
    /\ UNCHANGED <<activePlan, planCancelled, activeRun, child, timeoutTimers,
                   killTimers, pendingDecisions, disk, events, sub, cancels,
                   cancelResp, abVars>>
    /\ UNCHANGED <<env, policy>>

\* What Date.now() can return when isGitRepo has settled: the millisecond of
\* the last reading, or, once a runId was made of that one, the next.
Now == {clock} \cup {t \in {clock + 1} : t <= MaxRuns /\ \E s \in Runs : inv[s].runId = clock}

\* isGitRepo has settled: the runId is taken from the clock and ensureRunDir
\* is awaited.
AdmitRepo(s) ==
    /\ inv[s].pc = "admit_repo"
    /\ \E isRepo \in BOOLEAN, now \in Now :
         IF ~isRepo
         THEN LET r == Ended(inv[s], "refused", "Not a git repository (no .git found)")
              IN  /\ inv' = [inv EXCEPT ![s] = r]
                  /\ Thrown(r, r.err)
                  /\ UNCHANGED clock
         ELSE /\ inv' = [inv EXCEPT ![s].pc = "admit_dir", ![s].runId = now]
              /\ clock' = now
              /\ UNCHANGED abVars
    /\ UNCHANGED <<activePlan, planCancelled, activeRun, child, timeoutTimers,
                   killTimers, pendingDecisions, disk, events, sub, cancels, cancelResp>>
    /\ UNCHANGED <<env, policy>>

\* ensureRunDir has settled: activePlan is written and the loop entered.
AdmitDir(s) ==
    /\ inv[s].pc = "admit_dir"
    /\ activePlan' = s
    /\ planCancelled' = [planCancelled EXCEPT ![s] = FALSE]
    /\ \E o \in LoopTop(s, [inv[s] EXCEPT !.index = 1], events[inv[s].runId], child[s],
                        activeRun, timeoutTimers, s,
                        [planCancelled EXCEPT ![s] = FALSE]) :
         Apply(s, o)
    /\ UNCHANGED <<killTimers, pendingDecisions, disk, clock, sub, cancels, cancelResp>>
    /\ UNCHANGED <<env, policy>>

\* writeRunMeta has rejected (writeFile failed): the error leaves
\* runPlanInternal, which has no handler for it; activePlan stays as it is.
WriteFailed(s) ==
    /\ env.failures
    /\ inv' = [inv EXCEPT ![s] = Ended(@, "crashed", "writeFile")]
    /\ Thrown(inv[s], "writeFile")
    /\ UNCHANGED <<activePlan, planCancelled, activeRun, child, timeoutTimers,
                   killTimers, pendingDecisions, disk, events, clock, sub, cancels,
                   cancelResp>>
    /\ UNCHANGED <<env, policy>>

\* writeRunMeta of a note step has settled: the loop continues.
WriteNoteDone(s) ==
    /\ inv[s].pc = "write_note"
    /\ \/ WriteFailed(s)
       \/ /\ disk' = [disk EXCEPT ![inv[s].runId] = inv[s].runMeta]
          /\ \E o \in LoopTop(s, [inv[s] EXCEPT !.index = @ + 1], events[inv[s].runId],
                              child[s], activeRun, timeoutTimers, activePlan, planCancelled) :
               Apply(s, o)
          /\ UNCHANGED <<activePlan, planCancelled, killTimers, pendingDecisions, clock, sub,
                         cancels, cancelResp>>
          /\ UNCHANGED <<env, policy>>

\* A stdout or stderr chunk of a child: sendChunk.
ChildOutput(s) ==
    /\ env.chunks
    /\ child[s].alive
    /\ events' = [events EXCEPT ![inv[s].runId] = Emit(@, "output", inv[s].index)]
    /\ UNCHANGED <<inv, activePlan, planCancelled, activeRun, child, timeoutTimers,
                   killTimers, pendingDecisions, disk, clock, sub, cancels, cancelResp,
                   abVars>>
    /\ UNCHANGED <<env, policy>>

\* The exit codes a child can close with: null (a signal ended it) reads -1.
ExitCodes(c) == IF c.term \/ c.hard THEN {0, 1, -1} ELSE {0, 1}

\* child.on("close") (or child.on("error"), spawnError) of a cmd child, and
\* runPlanInternal from the settled runCommandStreaming to collectGitEvidence.
ChildClose(s) ==
    /\ inv[s].pc = "child"
    /\ child[s].alive
    /\ \E spawnError \in BOOLEAN, code \in ExitCodes(child[s]), stdout \in env.stdout :
         LET r == inv[s]
             exitCode == IF spawnError THEN -1 ELSE code
             mine == activeRun # NoActiveRun /\ activeRun.runId = r.runId
             isGrep == startsWith(r.step.command, GIT_GREP)
             isGrepNoMatch == isGrep /\ exitCode = 1
             effectiveExitCode == IF isGrepNoMatch THEN 0 ELSE exitCode
             ev1 == IF spawnError THEN Emit(events[r.runId], "output", r.index)
                    ELSE events[r.runId]
             ev2 == IF isGrepNoMatch THEN Emit(ev1, "output", r.index) ELSE ev1
         IN  /\ spawnError => ~child[s].term
             /\ timeoutTimers' = IF mine THEN timeoutTimers \ {activeRun.cid}
                                 ELSE timeoutTimers
             /\ killTimers' = killTimers \ {<<s, child[s].n>>}
             /\ activeRun' = NoActiveRun
             /\ child' = [child EXCEPT ![s] = NoChild]
             /\ events' = [events EXCEPT ![r.runId] = ev2]
             /\ inv' = [inv EXCEPT ![s] =
                  [r EXCEPT !.stepMeta.exit_code = exitCode,
                            !.stepMeta.cancelled = activeRun.cancelled,
                            !.stepMeta.timeout = activeRun.timedOut,
                            !.cancelled = r.cancelled \/ activeRun.cancelled,
                            !.timedOut = r.timedOut
                                         \/ (~activeRun.cancelled /\ activeRun.timedOut),
                            !.lastExitCode = effectiveExitCode,
                            !.lastPrecheckHit = isPrecheck(r.step.command) /\ stdout,
                            !.grepHit = isGrep /\ stdout,
                            !.pc = "evidence"]]
    /\ UNCHANGED <<activePlan, planCancelled, pendingDecisions, disk, clock, sub,
                   cancels, cancelResp, abVars>>
    /\ UNCHANGED <<env, policy>>

\* collectGitEvidence has settled: the step record is appended and
\* writeRunMeta awaited.
EvidenceDone(s) ==
    /\ inv[s].pc = "evidence"
    /\ \E e \in env.evidence :
         LET sm == [inv[s].stepMeta EXCEPT !.has_evidence = TRUE] IN
         inv' = [inv EXCEPT ![s] =
                  [@ EXCEPT !.stepMeta = sm, !.runMeta.steps = Append(@, sm),
                            !.evidence = [NoEvidence EXCEPT !.files = GateFiles(e)],
                            !.step = NoStep,
                            !.pc = "write"]]
    /\ events' = [events EXCEPT ![inv[s].runId] = Emit(@, "output", inv[s].index)]
    /\ UNCHANGED <<activePlan, planCancelled, activeRun, child, timeoutTimers,
                   killTimers, pendingDecisions, disk, clock, sub, cancels, cancelResp,
                   abVars>>
    /\ UNCHANGED <<env, policy>>

\* writeRunMeta of a cmd or blocked step has settled: break, or the decision
\* gate and then the next step.
WriteDone(s) ==
    /\ inv[s].pc = "write"
    /\ \/ WriteFailed(s)
       \/ /\ disk' = [disk EXCEPT ![inv[s].runId] = inv[s].runMeta]
          /\ LET r == inv[s]
                 blocked == r.stepMeta.blocked_by_policy
                 dependencyFiles == GateFiles(r.evidence)
                 asked == Emit(Emit(events[r.runId], "output", r.index), "decision", r.index)
                 here(r1, ev) == Out(r1, ev, child[s], activeRun, timeoutTimers)
             IN  IF ~blocked /\ (r.stepMeta.cancelled \/ r.stepMeta.timeout
                                 \/ r.lastExitCode # 0)
                 THEN /\ Apply(s, here(FinalStart(r), events[r.runId]))
                      /\ UNCHANGED pendingDecisions
                 ELSE IF dependencyFiles = << >>
                 THEN /\ UNCHANGED pendingDecisions
                      /\ IF blocked THEN Apply(s, here(FinalStart(r), events[r.runId]))
                         ELSE \E o \in LoopTop(s, [r EXCEPT !.index = @ + 1], events[r.runId],
                                               child[s], activeRun, timeoutTimers,
                                               activePlan, planCancelled) :
                                Apply(s, o)
                 ELSE IF r.mode = "async"
                 THEN /\ pendingDecisions' = [pendingDecisions EXCEPT ![r.runId] =
                            [owner |-> s, at |-> r.index, files |-> dependencyFiles,
                             waiting |-> FALSE]]
                      /\ Apply(s, here(FinalStart([r EXCEPT !.decisionPending = TRUE,
                                                   !.runMeta.decision_pending = TRUE]), asked))
                 ELSE /\ pendingDecisions' = [pendingDecisions EXCEPT ![r.runId] =
                            [owner |-> s, at |-> r.index, files |-> dependencyFiles,
                             waiting |-> TRUE]]
                      /\ Apply(s, here([r EXCEPT !.pc = "decision"], asked))
          /\ UNCHANGED <<activePlan, planCancelled, killTimers, clock, sub, cancels,
                         cancelResp>>
          /\ UNCHANGED <<env, policy>>

\* ------------------------------------------------------ the executor step
\* runExecutorCommand up to its promise: the child is spawned detached, its
\* timeout timer armed and activeRun overwritten.
SpawnExecutor(s, r, ev, ar, tt, pc) ==
    LET o == Spawn(s, r, ev, ar, tt, TRUE) IN [o EXCEPT !.r.pc = pc]

\* The baseline git diff --name-only has settled: runExecutorStreaming spawns
\* the exec child.
BaselineDone(s) ==
    /\ inv[s].pc = "baseline"
    /\ \E baselineResult \in env.diffs :
         LET baselineFiles == IF baselineResult.code = 0 /\ baselineResult.stdout # << >>
                              THEN parseNameOnly(baselineResult.stdout) ELSE << >>
         IN  Apply(s, SpawnExecutor(s, [inv[s] EXCEPT !.baselineFiles = baselineFiles],
                                    events[inv[s].runId], activeRun, timeoutTimers, "exec"))
    /\ UNCHANGED <<activePlan, planCancelled, killTimers, pendingDecisions, disk, clock,
                   sub, cancels, cancelResp>>
    /\ UNCHANGED <<env, policy>>

\* Lines 1370-1388: the run-level flags follow the result of the tool, and
\* the evaluation is attached to the step.
Evaluated(r) ==
    [r EXCEPT !.cancelled = r.cancelled \/ r.result.cancelled,
              !.timedOut = r.timedOut \/ (~r.result.cancelled /\ r.result.timedOut),
              !.lastExitCode = r.result.exitCode,
              !.stepMeta.evaluation = r.evaluation,
              !.lastExecutorEvaluation = r.evaluation]

\* Lines 1393-1398: the step record is appended with the final evidence, and
\* writeRunMeta awaited.
Recorded(r, e) ==
    LET sm == [r.stepMeta EXCEPT !.has_evidence = TRUE] IN
    [r EXCEPT !.stepMeta = sm, !.runMeta.steps = Append(@, sm),
              !.evidence = [NoEvidence EXCEPT !.files = GateFiles(e)],
              !.step = NoStep, !.baselineFiles = << >>, !.evaluation = NoEvaluation,
              !.result = NoResult, !.lastPrecheckHit = FALSE, !.grepHit = FALSE,
              !.pc = "write"]

\* child.on("close") (or child.on("error"), spawnError) of an exec or apply
\* child: runExecutorStreaming spawns the apply child after an exec child that
\* succeeded, and returns the result otherwise; runPlanInternal then collects
\* evidence, or reads the diff after a retry.
ExecutorClose(s) ==
    /\ inv[s].pc \in {"exec", "apply"}
    /\ child[s].alive
    /\ \E spawnError \in BOOLEAN, code \in ExitCodes(child[s]) :
         LET r == inv[s]
             mine == activeRun # NoActiveRun /\ activeRun.runId = r.runId
             result == [exitCode |-> IF spawnError THEN -1 ELSE code,
                        cancelled |-> activeRun.cancelled, timedOut |-> activeRun.timedOut]
             ev == IF spawnError THEN Emit(events[r.runId], "output", r.index)
                   ELSE events[r.runId]
             tt == IF mine THEN timeoutTimers \ {activeRun.cid} ELSE timeoutTimers
         IN  /\ spawnError => ~child[s].term
             /\ killTimers' = killTimers \ {<<s, child[s].n>>}
             /\ IF /\ r.pc = "exec"
                   /\ ~(result.exitCode # 0 \/ result.cancelled \/ result.timedOut
                        \/ spawnError)
                THEN Apply(s, SpawnExecutor(s, [r EXCEPT !.result = result], ev, NoActiveRun,
                                           tt, "apply"))
                ELSE Apply(s, Out(IF r.evaluation.retried
                                  THEN [r EXCEPT !.result = result, !.pc = "retry_diff"]
                                  ELSE [r EXCEPT !.result = result,
                                                 !.stepMeta.exit_code = result.exitCode,
                                                 !.stepMeta.cancelled = result.cancelled,
                                                 !.stepMeta.timeout = result.timedOut,
                                                 !.pc = "xevidence"],
                                  ev, NoChild, NoActiveRun, tt))
    /\ UNCHANGED <<activePlan, planCancelled, pendingDecisions, disk, clock, sub,
                   cancels, cancelResp>>
    /\ UNCHANGED <<env, policy>>

\* Evaluate with the baseline left out of has_changes.
Evaluate_CurrentOnly(result, baselineFiles, evidence, lastPrecheckHit) ==
    LET currentFiles == IF evidence.error THEN << >> ELSE parseNameOnly(evidence.files)
        changedFiles == diffFromBaseline(baselineFiles, currentFiles)
        hasChanges == Len(currentFiles) > 0
    IN  [NoEvaluation EXCEPT
            !.present = TRUE,
            !.baseline_files = baselineFiles,
            !.current_files = currentFiles,
            !.changed_files = changedFiles,
            !.has_changes = hasChanges,
            !.suspicious_no_change = (result.exitCode = 0 /\ ~hasChanges),
            !.no_op = (result.exitCode = 0 /\ lastPrecheckHit /\ ~hasChanges)]

\* The evaluation of lines 1286-1304.
Evaluate(result, baselineFiles, evidence, lastPrecheckHit) ==
    LET currentFiles == IF evidence.error THEN << >> ELSE parseNameOnly(evidence.files)
        changedFiles == diffFromBaseline(baselineFiles, currentFiles)
        hasChanges == Len(changedFiles) > 0
    IN  [NoEvaluation EXCEPT
            !.present = TRUE,
            !.baseline_files = baselineFiles,
            !.current_files = currentFiles,
            !.changed_files = changedFiles,
            !.has_changes = hasChanges,
            !.suspicious_no_change = (result.exitCode = 0 /\ ~hasChanges),
            !.no_op = (result.exitCode = 0 /\ lastPrecheckHit /\ ~hasChanges)]

\* AfterEvaluation retrying as well when no_op is set.
AfterEvaluation_RetriesNoOp(s, r, e, ev) ==
    IF r.evaluation.suspicious_no_change
    THEN SpawnExecutor(s, [r EXCEPT !.evaluation.retried = TRUE],
                       ev, activeRun, timeoutTimers, "exec")
    ELSE Out(Recorded(Evaluated(r), e), Emit(ev, "output", r.index),
             child[s], activeRun, timeoutTimers)

\* What follows the evaluation: the audit grep, the retry, or the record.
AfterEvaluation(s, r, e, ev) ==
    IF r.evaluation.no_op
    THEN Out([r EXCEPT !.evidence = e, !.pc = "noop_grep"], Emit(ev, "output", r.index),
             child[s], activeRun, timeoutTimers)
    ELSE IF r.evaluation.suspicious_no_change
    THEN SpawnExecutor(s, [r EXCEPT !.evaluation.retried = TRUE],
                       ev, activeRun, timeoutTimers, "exec")
    ELSE Out(Recorded(Evaluated(r), e), Emit(ev, "output", r.index),
             child[s], activeRun, timeoutTimers)

\* collectGitEvidence after the tool has settled: the step is evaluated.
ExecutorEvidenceDone(s) ==
    /\ inv[s].pc = "xevidence"
    /\ \E e \in env.evidence :
         LET r == [inv[s] EXCEPT !.evaluation =
                      Evaluate(inv[s].result, inv[s].baselineFiles, e,
                               inv[s].lastPrecheckHit)]
         IN  Apply(s, AfterEvaluation(s, r, e, Emit(events[r.runId], "output", r.index)))
    /\ UNCHANGED <<activePlan, planCancelled, killTimers, pendingDecisions, disk, clock,
                   sub, cancels, cancelResp>>
    /\ UNCHANGED <<env, policy>>

\* The audit grep of a no-op has settled: the step is recorded.
NoOpGrepDone(s) ==
    /\ inv[s].pc = "noop_grep"
    /\ LET r == inv[s] IN
       Apply(s, Out(Recorded(Evaluated(r), r.evidence),
                    Emit(events[r.runId], "output", r.index),
                    child[s], activeRun, timeoutTimers))
    /\ UNCHANGED <<activePlan, planCancelled, killTimers, pendingDecisions, disk, clock,
                   sub, cancels, cancelResp>>
    /\ UNCHANGED <<env, policy>>

\* git diff --name-only after the retry has settled: retry_result is set, the
\* result of the retry becomes the result of the step, and the final
\* evidence is collected.
RetryDiffDone(s) ==
    /\ inv[s].pc = "retry_diff"
    /\ \E retryDiff \in env.diffs :
         LET r == inv[s]
             retryCurrent == IF retryDiff.code = 0 /\ retryDiff.stdout # << >>
                             THEN parseNameOnly(retryDiff.stdout) ELSE << >>
             retryChanged == diffFromBaseline(r.baselineFiles, retryCurrent)
             r1 == [r EXCEPT !.evaluation.retry_result =
                                [present |-> TRUE, exit_code |-> r.result.exitCode,
                                 current_files |-> retryCurrent,
                                 changed_files |-> retryChanged,
                                 has_changes |-> Len(retryChanged) > 0],
                             !.stepMeta.exit_code = r.result.exitCode,
                             !.stepMeta.cancelled = r.result.cancelled,
                             !.stepMeta.timeout = r.result.timedOut]
         IN  Apply(s, Out([Evaluated(r1) EXCEPT !.pc = "final_evidence"],
                          Emit(events[r.runId], "output", r.index),
                          child[s], activeRun, timeoutTimers))
    /\ UNCHANGED <<activePlan, planCancelled, killTimers, pendingDecisions, disk, clock,
                   sub, cancels, cancelResp>>
    /\ UNCHANGED <<env, policy>>

\* collectGitEvidence after a retry has settled: the step is recorded.
FinalEvidenceDone(s) ==
    /\ inv[s].pc = "final_evidence"
    /\ \E e \in env.evidence :
         Apply(s, Out(Recorded(inv[s], e), Emit(events[inv[s].runId], "output", inv[s].index),
                      child[s], activeRun, timeoutTimers))
    /\ UNCHANGED <<activePlan, planCancelled, killTimers, pendingDecisions, disk, clock,
                   sub, cancels, cancelResp>>
    /\ UNCHANGED <<env, policy>>

\* The mergeDecisionFromDisk after a delivered decision has settled.
MergeDone(s) ==
    /\ inv[s].pc = "merge"
    /\ LET r == [inv[s] EXCEPT
                   !.runMeta = mergeDecisionFromDisk(disk[inv[s].runId], @)]
           here(r1) == Out(r1, events[r.runId], child[s], activeRun, timeoutTimers)
       IN  IF r.stepMeta.blocked_by_policy
           THEN Apply(s, here(FinalStart(r)))
           ELSE IF r.decisionResult = "rejected"
           THEN Apply(s, here(FinalStart([r EXCEPT !.cancelledByDecision = TRUE])))
           ELSE IF activePlan = None
           THEN Apply(s, here(Ended(r, "crashed", "TypeError")))
           ELSE IF planCancelled[activePlan]
           THEN Apply(s, here(FinalStart([r EXCEPT !.cancelled = TRUE,
                                                   !.lastExitCode = -1])))
           ELSE \E o \in LoopTop(s, [r EXCEPT !.index = @ + 1], events[r.runId],
                                 child[s], activeRun, timeoutTimers,
                                 activePlan, planCancelled) :
                  Apply(s, o)
    /\ UNCHANGED <<activePlan, planCancelled, killTimers, pendingDecisions, disk, clock,
                   sub, cancels, cancelResp>>
    /\ UNCHANGED <<env, policy>>

\* The final mergeDecisionFromDisk has settled: the run-level fields are set
\* and the final writeRunMeta awaited.
FinalMergeDone(s) ==
    /\ inv[s].pc = "fmerge"
    /\ LET r == inv[s]
           merged == mergeDecisionFromDisk(disk[r.runId], r.runMeta)
       IN  inv' = [inv EXCEPT ![s] =
             [r EXCEPT !.pc = "fwrite",
                       !.runMeta = [merged EXCEPT
                          !.endTime = TRUE,
                          !.exitCode = r.lastExitCode,
                          !.blocked_by_policy = r.blockedByPolicy,
                          !.timeout = r.timedOut,
                          !.cancelled = r.cancelled,
                          !.cancelled_by_decision = r.cancelledByDecision,
                          !.decision_pending = merged.decision_pending
                                               \/ r.decisionPending]]]
    /\ UNCHANGED <<activePlan, planCancelled, activeRun, child, timeoutTimers,
                   killTimers, pendingDecisions, disk, events, clock, sub, cancels,
                   cancelResp, abVars>>
    /\ UNCHANGED <<env, policy>>

\* FinalWriteDone deleting the entry of the run in pendingDecisions.
FinalWriteDone_DeletesPending(s) ==
    /\ inv[s].pc = "fwrite"
    /\ disk' = [disk EXCEPT ![inv[s].runId] = inv[s].runMeta]
    /\ events' = [events EXCEPT ![inv[s].runId] = Emit(@, "done", inv[s].lastExitCode)]
    /\ activePlan' = None
    /\ inv' = [inv EXCEPT ![s] = Ended(@, "done", "")]
    /\ IF inv[s].mode = "async" THEN AbSet(AbAfterRun(ab, inv[s], autobuildCancelled))
       ELSE UNCHANGED abVars
    /\ pendingDecisions' = [pendingDecisions EXCEPT ![inv[s].runId] = NoPending]
    /\ UNCHANGED <<planCancelled, activeRun, child, timeoutTimers, killTimers,
                   clock, sub, cancels, cancelResp>>
    /\ UNCHANGED <<env, policy>>

\* The final writeRunMeta has settled: run:done is sent, activePlan released
\* and the result returned; the loop of autobuild:start goes on with it.
FinalWriteDone(s) ==
    /\ inv[s].pc = "fwrite"
    /\ \/ WriteFailed(s)
       \/ /\ disk' = [disk EXCEPT ![inv[s].runId] = inv[s].runMeta]
          /\ events' = [events EXCEPT ![inv[s].runId] = Emit(@, "done", inv[s].lastExitCode)]
          /\ activePlan' = None
          /\ inv' = [inv EXCEPT ![s] = Ended(@, "done", "")]
          /\ IF inv[s].mode = "async" THEN AbSet(AbAfterRun(ab, inv[s], autobuildCancelled))
             ELSE UNCHANGED abVars
          /\ UNCHANGED <<planCancelled, activeRun, child, timeoutTimers, killTimers,
                         pendingDecisions, clock, sub, cancels, cancelResp>>
          /\ UNCHANGED <<env, policy>>

\* ------------------------------------------------------ child supervisor
\* The RUN_TIMEOUT_MS timer of child cid fires.
Timeout(cid) ==
    /\ cid \in timeoutTimers
    /\ timeoutTimers' = timeoutTimers \ {cid}
    /\ LET rid == inv[cid[1]].runId IN
       IF activeRun = NoActiveRun \/ activeRun.runId # rid
       THEN UNCHANGED <<activeRun, events, child, killTimers>>
       ELSE /\ activeRun' = [activeRun EXCEPT !.timedOut = TRUE]
            /\ events' = [events EXCEPT ![rid] = Emit(@, "output", inv[cid[1]].index)]
            /\ child' = terminateProcess(child, cid)
            /\ killTimers' = killTimers \cup armKillTimer(child, cid)
    /\ UNCHANGED <<inv, activePlan, planCancelled, pendingDecisions, disk, clock, sub,
                   cancels, cancelResp, abVars>>
    /\ UNCHANGED <<env, policy>>

\* The kill-grace timer of child cid fires: SIGKILL unless child.killed.
KillTimer(cid) ==
    /\ cid \in killTimers
    /\ killTimers' = killTimers \ {cid}
    /\ child' = IF child[cid[1]].killed THEN child
                ELSE [child EXCEPT ![cid[1]].hard = TRUE]
    /\ UNCHANGED <<inv, activePlan, planCancelled, activeRun, timeoutTimers,
                   pendingDecisions, disk, events, clock, sub, cancels, cancelResp,
                   abVars>>
    /\ UNCHANGED <<env, policy>>

\* ------------------------------------------------------ request handlers
\* activePlan.cancelled = true, and the child of activeRun is terminated if
\* it is the active plan's: the part run:cancel and autobuild:cancel share.
CancelActive ==
    LET hit == activeRun # NoActiveRun /\ activeRun.runId = inv[activePlan].runId IN
    /\ planCancelled' = [planCancelled EXCEPT ![activePlan] = TRUE]
    /\ activeRun' = IF hit THEN [activeRun EXCEPT !.cancelled = TRUE] ELSE activeRun
    /\ child' = IF hit THEN terminateProcess(child, activeRun.cid) ELSE child
    /\ killTimers' = IF hit THEN killTimers \cup armKillTimer(child, activeRun.cid)
                     ELSE killTimers

\* CancelRun without the comparison of activePlan.runId with the runId asked.
CancelRun_AnyActive(rid) ==
    /\ cancels < env.cancels
    /\ Requests < env.requests
    /\ cancels' = cancels + 1
    /\ IF activePlan = None
       THEN /\ cancelResp' = [runId |-> rid, ok |-> FALSE]
            /\ UNCHANGED <<inv, planCancelled, activeRun, child, killTimers,
                           pendingDecisions, events>>
       ELSE LET pending == pendingDecisions[rid] IN
            /\ cancelResp' = [runId |-> rid, ok |-> TRUE]
            /\ CancelActive
            /\ events' = [events EXCEPT ![rid] =
                  Emit(Emit(@, "output", 0), "cancelled", 0)]
            /\ inv' = IF pending # NoPending
                      THEN resolveDecision(inv, pending, "rejected")
                      ELSE inv
            /\ pendingDecisions' = [pendingDecisions EXCEPT ![rid] = NoPending]
    /\ UNCHANGED <<activePlan, timeoutTimers, disk, clock, sub, abVars>>
    /\ UNCHANGED <<env, policy>>

\* ipcMain.handle("run:cancel")
CancelRun(rid) ==
    /\ cancels < env.cancels
    /\ Requests < env.requests
    /\ cancels' = cancels + 1
    /\ IF activePlan = None \/ inv[activePlan].runId # rid
       THEN /\ cancelResp' = [runId |-> rid, ok |-> FALSE]
            /\ UNCHANGED <<inv, planCancelled, activeRun, child, killTimers,
                           pendingDecisions, events>>
       ELSE LET pending == pendingDecisions[rid] IN
            /\ cancelResp' = [runId |-> rid, ok |-> TRUE]
            /\ CancelActive
            /\ events' = [events EXCEPT ![rid] =
                  Emit(Emit(@, "output", 0), "cancelled", 0)]
            /\ inv' = IF pending # NoPending
                      THEN resolveDecision(inv, pending, "rejected")
                      ELSE inv
            /\ pendingDecisions' = [pendingDecisions EXCEPT ![rid] = NoPending]
    /\ UNCHANGED <<activePlan, timeoutTimers, disk, clock, sub, abVars>>
    /\ UNCHANGED <<env, policy>>

\* ipcMain.handle("autobuild:cancel")
AutobuildCancel ==
    /\ cancels < env.cancels
    /\ Requests < env.requests
    /\ cancels' = cancels + 1
    /\ autobuildCancelled' = TRUE
    /\ IF activePlan # None THEN CancelActive
       ELSE UNCHANGED <<planCancelled, activeRun, child, killTimers>>
    /\ UNCHANGED <<inv, activePlan, timeoutTimers, pendingDecisions, disk, events, clock,
                   sub, cancelResp, autobuildActive, ab, starts, startResp>>
    /\ UNCHANGED <<env, policy>>

\* AutobuildStart without the test of autobuildActive.
AutobuildStart_IgnoresActive ==
    /\ starts < env.starts
    /\ Requests < env.requests
    /\ starts' = starts + 1
    /\ \E workspace \in {"", "ws"}, maxIterations \in 1..env.iterations :
         IF activePlan # None
         THEN /\ startResp' = "Another run is already active"
              /\ UNCHANGED <<ab, autobuildActive, autobuildCancelled>>
         ELSE IF workspace = ""
         THEN /\ startResp' = "Workspace not set"
              /\ UNCHANGED <<ab, autobuildActive, autobuildCancelled>>
         ELSE /\ startResp' = "pending"
              /\ ab' = AbSend([NoAutobuild EXCEPT !.pc = "planning", !.iteration = 1,
                                                  !.maxIterations = maxIterations],
                              "status", "planning")
              /\ autobuildActive' = TRUE
              /\ autobuildCancelled' = FALSE
    /\ UNCHANGED <<inv, activePlan, planCancelled, activeRun, child, timeoutTimers,
                   killTimers, pendingDecisions, disk, events, clock, sub, cancels,
                   cancelResp>>
    /\ UNCHANGED <<env, policy>>

\* ipcMain.handle("autobuild:start") up to the first await of
\* generatePlanFromRequirement.  A request that is refused throws before it
\* has written anything.
AutobuildStart ==
    /\ starts < env.starts
    /\ Requests < env.requests
    /\ starts' = starts + 1
    /\ \E workspace \in {"", "ws"}, maxIterations \in 1..env.iterations :
         IF autobuildActive \/ activePlan # None
         THEN /\ startResp' = "Another run is already active"
              /\ UNCHANGED <<ab, autobuildActive, autobuildCancelled>>
         ELSE IF workspace = ""
         THEN /\ startResp' = "Workspace not set"
              /\ UNCHANGED <<ab, autobuildActive, autobuildCancelled>>
         ELSE /\ startResp' = "pending"
              /\ ab' = AbSend([NoAutobuild EXCEPT !.pc = "planning", !.iteration = 1,
                                                  !.maxIterations = maxIterations],
                              "status", "planning")
              /\ autobuildActive' = TRUE
              /\ autobuildCancelled' = FALSE
    /\ UNCHANGED <<inv, activePlan, planCancelled, activeRun, child, timeoutTimers,
                   killTimers, pendingDecisions, disk, events, clock, sub, cancels,
                   cancelResp>>
    /\ UNCHANGED <<env, policy>>

\* generatePlanFromRequirement has settled: the plan is run.
AutobuildPlanned(s) ==
    /\ ab.pc = "planning"
    /\ \E planned \in BOOLEAN :
         IF ~planned
         THEN /\ AbSet(PlanningFailed(ab))
              /\ UNCHANGED <<inv, clock>>
         ELSE IF autobuildCancelled
         THEN /\ AbSet(AbStop(AbSend(ab, "plan", ""), "cancelled"))
              /\ UNCHANGED <<inv, clock>>
         ELSE /\ Free(s)
              /\ \E n \in 1..env.steps :
                   /\ n <= env.totalSteps - PlannedSteps(Runs)
                   /\ LET r == Preflight(inv[s], "ws", n, "async")
                          a == AbSend(AbSend(ab, "plan", ""), "status", "running")
                      IN  /\ inv' = [inv EXCEPT ![s] = r]
                          /\ clock' = Elapsed(r)
                          /\ IF r.pc = "refused"
                             THEN AbSet([a EXCEPT !.pc = "threw", !.err = r.err])
                             ELSE AbSet([a EXCEPT !.pc = "running"])
    /\ UNCHANGED <<activePlan, planCancelled, activeRun, child, timeoutTimers,
                   killTimers, pendingDecisions, disk, events, sub, cancels,
                   cancelResp>>
    /\ UNCHANGED <<env, policy>>

\* ipcMain.handle("run:decision"): the lookup, up to the await of readFile.
SubmitDecision(d) ==
    /\ sub[d].pc = "idle"
    /\ IF d = 1 THEN TRUE ELSE sub[d - 1].pc # "idle"
    /\ Requests < env.requests
    /\ \E rid \in RunIds, result \in {"approved", "rejected"} :
         sub' = IF pendingDecisions[rid] = NoPending
                THEN sub    \* returns false
                ELSE [sub EXCEPT ![d] =
                        [@ EXCEPT !.pc = "read", !.runId = rid, !.result = result,
                                  !.pending = pendingDecisions[rid]]]
    /\ UNCHANGED <<inv, activePlan, planCancelled, activeRun, child, timeoutTimers,
                   killTimers, pendingDecisions, disk, events, clock, cancels,
                   cancelResp, abVars>>
    /\ UNCHANGED <<env, policy>>

\* readFile of run.json has settled: writeRunMeta is awaited.
SubmitRead(d) ==
    /\ sub[d].pc = "read"
    /\ sub' = [sub EXCEPT ![d] =
          IF disk[sub[d].runId].exists
          THEN [@ EXCEPT !.pc = "write", !.existing = disk[sub[d].runId]]
          ELSE [NoSub EXCEPT !.pc = "done", !.ret = "throws"]]
    /\ UNCHANGED <<inv, activePlan, planCancelled, activeRun, child, timeoutTimers,
                   killTimers, pendingDecisions, disk, events, clock, cancels,
                   cancelResp, abVars>>
    /\ UNCHANGED <<env, policy>>

\* writeRunMeta has rejected: the run:decision request is rejected, the waiter
\* neither resolved nor removed.
SubmitWriteFailed(d) ==
    /\ env.failures
    /\ sub' = [sub EXCEPT ![d] = [NoSub EXCEPT !.pc = "done", !.ret = "throws"]]
    /\ UNCHANGED <<inv, activePlan, planCancelled, activeRun, child, timeoutTimers,
                   killTimers, pendingDecisions, disk, events, clock, cancels,
                   cancelResp, abVars>>
    /\ UNCHANGED <<env, policy>>

\* writeRunMeta has settled: the waiter is resolved and removed.
SubmitWrite(d) ==
    /\ sub[d].pc = "write"
    /\ \/ SubmitWriteFailed(d)
       \/ /\ disk' = [disk EXCEPT ![sub[d].runId] =
                [sub[d].existing EXCEPT !.decision =
                    [result |-> sub[d].result, files |-> sub[d].pending.files]]]
          /\ inv' = resolveDecision(inv, sub[d].pending, sub[d].result)
          /\ pendingDecisions' = [pendingDecisions EXCEPT ![sub[d].runId] = NoPending]
          /\ sub' = [sub EXCEPT ![d] = [NoSub EXCEPT !.pc = "done", !.ret = "true",
                                                     !.runId = sub[d].runId,
                                                     !.result = sub[d].result]]
          /\ UNCHANGED <<activePlan, planCancelled, activeRun, child, timeoutTimers,
                         killTimers, events, clock, cancels, cancelResp, abVars>>
          /\ UNCHANGED <<env, policy>>

\* ------------------------------------------------------- the plan policy
\* generatePlanFromRequirement from the parsed output of the planner to its
\* return: TaskPlanSchema.parse, validateGeneratedPlan, planHasForbiddenCmdOps.
\* A plan that is not returned is thrown away (an error, or another attempt).
GeneratePlan ==
    /\ policy.pc = "offered"
    /\ policy' = [policy EXCEPT
          !.pc = "generated",
          !.generated = IF validateGeneratedPlan(policy.plan) # {} THEN "rejected"
                        ELSE IF planHasForbiddenCmdOps(policy.plan) THEN "rejected"
                        ELSE "returned"]
    /\ UNCHANGED <<inv, activePlan, planCancelled, activeRun, child, timeoutTimers,
                   killTimers, pendingDecisions, disk, events, clock, sub, cancels,
                   cancelResp, abVars, env>>

\* ipcMain.handle("run:plan") with the same plan as the renderer's: the
\* payload goes to runPlanInternal as it is, and the preflight decides.
PolicyRunPlan ==
    /\ policy.pc = "generated"
    /\ LET r == Preflight(NoInvocation, "ws", Len(policy.plan), "sync") IN
       policy' = [policy EXCEPT !.pc = IF r.pc = "refused" THEN "refused" ELSE "admitted",
                                !.index = 1]
    /\ UNCHANGED <<inv, activePlan, planCancelled, activeRun, child, timeoutTimers,
                   killTimers, pendingDecisions, disk, events, clock, sub, cancels,
                   cancelResp, abVars, env>>

\* The body of the loop of runPlanInternal for the next step of the plan, as
\* far as the policy goes: the step is blocked, which ends the run, or it is
\* carried out (its exit code is taken to be 0).
PolicyRunStep ==
    /\ policy.pc = "admitted"
    /\ IF policy.index > Len(policy.plan)
       THEN policy' = [policy EXCEPT !.pc = "ended"]
       ELSE LET r == [NoInvocation EXCEPT !.index = policy.index,
                                          !.total = Len(policy.plan), !.runId = 1]
                o == Dispatch(1, r, policy.plan[policy.index], << >>, NoChild,
                              NoActiveRun, {})
            IN  IF o.r.stepMeta.blocked_by_policy
                THEN policy' = [policy EXCEPT !.pc = "ended",
                                             !.outcome = Append(@, "blocked")]
                ELSE policy' = [policy EXCEPT !.index = @ + 1,
                                             !.outcome = Append(@, "run")]
    /\ UNCHANGED <<inv, activePlan, planCancelled, activeRun, child, timeoutTimers,
                   killTimers, pendingDecisions, disk, events, clock, sub, cancels,
                   cancelResp, abVars, env>>

\* The head of the attempt loop of generatePlanFromRequirement, up to the
\* await of fetch: the first request carries the base prompt, the second the
\* base prompt and the retry hint.
PlannerFetch(p) ==
    IF p.attempt < 2
    THEN [p EXCEPT !.pc = "fetching",
                   !.calls = Append(@, IF p.attempt = 0 THEN "base" ELSE "base+hint")]
    ELSE [p EXCEPT !.pc = "failed", !.error = "Planner failed to generate a valid plan"]

\* generatePlanFromRequirement is called: without an API key it throws, with
\* one it sends the first request.
PlannerStart ==
    /\ policy.pc = "requested"
    /\ \E apiKey \in BOOLEAN :
         policy' = IF ~apiKey
                   THEN [policy EXCEPT !.pc = "failed", !.error = "OPENAI_API_KEY is not set"]
                   ELSE PlannerFetch(policy)
    /\ UNCHANGED <<inv, activePlan, planCancelled, activeRun, child, timeoutTimers,
                   killTimers, pendingDecisions, disk, events, clock, sub, cancels,
                   cancelResp, abVars, env>>

\* PlannerResponse asking again after a plan that did not validate as well.
PlannerResponse_RetriesInvalid ==
    /\ policy.pc = "fetching"
    /\ \E response \in Responses :
         LET p == [policy EXCEPT !.responses = Append(@, response)]
             failed(error) == [p EXCEPT !.pc = "failed", !.error = error]
         IN  policy' =
               CASE response.kind = "http_error" -> failed("OpenAI API error")
                 [] response.kind = "empty" -> failed("OpenAI response missing content")
                 [] response.kind = "not_json" -> failed("Planner JSON parse error")
                 [] response.kind = "not_a_plan" -> failed("Plan schema validation failed")
                 [] OTHER ->
                      IF validateGeneratedPlan(response.plan) # {}
                         \/ planHasForbiddenCmdOps(response.plan)
                      THEN IF p.attempt = 0
                           THEN PlannerFetch([p EXCEPT !.attempt = @ + 1])
                           ELSE failed("Planner output includes forbidden shell operators")
                      ELSE [p EXCEPT !.pc = "returned", !.plan = response.plan]
    /\ UNCHANGED <<inv, activePlan, planCancelled, activeRun, child, timeoutTimers,
                   killTimers, pendingDecisions, disk, events, clock, sub, cancels,
                   cancelResp, abVars, env>>

\* The response of the completion endpoint has arrived: the body of the
\* loop from the test of response.ok to a throw, the return of the plan, or
\* the next request.
PlannerResponse ==
    /\ policy.pc = "fetching"
    /\ \E response \in Responses :
         LET p == [policy EXCEPT !.responses = Append(@, response)]
             failed(error) == [p EXCEPT !.pc = "failed", !.error = error]
         IN  policy' =
               CASE response.kind = "http_error" -> failed("OpenAI API error")
                 [] response.kind = "empty" -> failed("OpenAI response missing content")
                 [] response.kind = "not_json" -> failed("Planner JSON parse error")
                 [] response.kind = "not_a_plan" -> failed("Plan schema validation failed")
                 [] OTHER ->
                      IF validateGeneratedPlan(response.plan) # {}
                      THEN failed("Plan policy validation failed")
                      ELSE IF planHasForbiddenCmdOps(response.plan)
                      THEN IF p.attempt = 0
                           THEN PlannerFetch([p EXCEPT !.attempt = @ + 1])
                           ELSE failed("Planner output includes forbidden shell operators")
                      ELSE [p EXCEPT !.pc = "returned", !.plan = response.plan]
    /\ UNCHANGED <<inv, activePlan, planCancelled, activeRun, child, timeoutTimers,
                   killTimers, pendingDecisions, disk, events, clock, sub, cancels,
                   cancelResp, abVars, env>>

\* ---------------------------------------------------------- specification
Next ==
    \/ \E s \in Runs : RunPlan(s)
    \/ \E s \in Runs : AdmitRepo(s)
    \/ \E s \in Runs : AdmitDir(s)
    \/ \E s \in Runs : WriteNoteDone(s)
    \/ \E s \in Runs : ChildOutput(s)
    \/ \E s \in Runs : ChildClose(s)
    \/ \E s \in Runs : EvidenceDone(s)
    \/ \E s \in Runs : WriteDone(s)
    \/ \E s \in Runs : MergeDone(s)
    \/ \E s \in Runs : FinalMergeDone(s)
    \/ \E s \in Runs : FinalWriteDone(s)
    \/ \E cid \in Runs \X (1..MaxSteps) : Timeout(cid)
    \/ \E cid \in Runs \X (1..MaxSteps) : KillTimer(cid)
    \/ \E rid \in RunIds : CancelRun(rid)
    \/ AutobuildCancel
    \/ AutobuildStart
    \/ \E s \in Runs : AutobuildPlanned(s)
    \/ \E d \in Subs : SubmitDecision(d)
    \/ \E d \in Subs : SubmitRead(d)
    \/ \E d \in Subs : SubmitWrite(d)

Spec == Init /\ [][Next]_vars

\* The behaviours in which the file system can fail.
FailureSpec == FailureInit /\ [][Next]_vars

\* The behaviours of one run of the front-end in which what the run waits for
\* happens: the file system and git operations it awaits settle, the timers
\* fire, a run:decision request that has been received is carried out, and a
\* child that was sent the hard-kill signal exits.  A child that was not may
\* exit by itself or not, and the front-end may answer or not.
LiveNext ==
    \/ \E s \in Runs : RunPlan(s)
    \/ \E s \in Runs : AdmitRepo(s)
    \/ \E s \in Runs : AdmitDir(s)
    \/ \E s \in Runs : WriteNoteDone(s)
    \/ \E s \in Runs : ChildOutput(s)
    \/ \E s \in Runs : ChildClose(s)
    \/ \E s \in Runs : EvidenceDone(s)
    \/ \E s \in Runs : WriteDone(s)
    \/ \E s \in Runs : MergeDone(s)
    \/ \E s \in Runs : FinalMergeDone(s)
    \/ \E s \in Runs : FinalWriteDone(s)
    \/ \E cid \in Runs \X (1..MaxSteps) : Timeout(cid)
    \/ \E cid \in Runs \X (1..MaxSteps) : KillTimer(cid)
    \/ \E rid \in RunIds : CancelRun(rid)
    \/ AutobuildCancel
    \/ \E d \in Subs : SubmitDecision(d)
    \/ \E d \in Subs : SubmitRead(d)
    \/ \E d \in Subs : SubmitWrite(d)

Fairness ==
    /\ \A s \in Runs :
          /\ WF_vars(AdmitRepo(s))
          /\ WF_vars(AdmitDir(s))
          /\ WF_vars(WriteNoteDone(s))
          /\ WF_vars(EvidenceDone(s))
          /\ WF_vars(WriteDone(s))
          /\ WF_vars(MergeDone(s))
          /\ WF_vars(FinalMergeDone(s))
          /\ WF_vars(FinalWriteDone(s))
          /\ WF_vars(child[s].hard /\ ChildClose(s))
    /\ \A cid \in Runs \X (1..MaxSteps) :
          /\ WF_vars(Timeout(cid))
          /\ WF_vars(KillTimer(cid))
    /\ \A d \in Subs :
          /\ WF_vars(SubmitRead(d))
          /\ WF_vars(SubmitWrite(d))

LiveSpec == LiveInit /\ [][LiveNext]_vars /\ Fairness

\* The behaviours in which plans run the executor tool: no run:decision
\* request is made in them.
ExecutorNext ==
    \/ \E s \in Runs : RunPlan(s)
    \/ \E s \in Runs : AdmitRepo(s)
    \/ \E s \in Runs : AdmitDir(s)
    \/ \E s \in Runs : WriteNoteDone(s)
    \/ \E s \in Runs : ChildOutput(s)
    \/ \E s \in Runs : ChildClose(s)
    \/ \E s \in Runs : EvidenceDone(s)
    \/ \E s \in Runs : BaselineDone(s)
    \/ \E s \in Runs : ExecutorClose(s)
    \/ \E s \in Runs : ExecutorEvidenceDone(s)
    \/ \E s \in Runs : NoOpGrepDone(s)
    \/ \E s \in Runs : RetryDiffDone(s)
    \/ \E s \in Runs : FinalEvidenceDone(s)
    \/ \E s \in Runs : WriteDone(s)
    \/ \E s \in Runs : MergeDone(s)
    \/ \E s \in Runs : FinalMergeDone(s)
    \/ \E s \in Runs : FinalWriteDone(s)
    \/ \E cid \in Runs \X (1..MaxChildren) : Timeout(cid)
    \/ \E cid \in Runs \X (1..MaxChildren) : KillTimer(cid)
    \/ \E rid \in RunIds : CancelRun(rid)
    \/ AutobuildCancel
    \/ AutobuildStart
    \/ \E s \in Runs : AutobuildPlanned(s)

ExecutorSpec == ExecutorInit /\ [][ExecutorNext]_vars

\* The behaviours in which one plan is offered to generatePlan and to runPlan.
PolicyInit ==
    /\ Constructed(RunEnv)
    /\ \E plan \in Plans : policy = [NoPolicy EXCEPT !.pc = "offered", !.plan = plan]

PolicyNext ==
    \/ GeneratePlan
    \/ PolicyRunPlan
    \/ PolicyRunStep

PolicySpec == PolicyInit /\ [][PolicyNext]_vars

\* The behaviours of one call of generatePlanFromRequirement.
PlannerInit == Constructed(RunEnv) /\ policy = [NoPolicy EXCEPT !.pc = "requested"]

PlannerNext ==
    \/ PlannerStart
    \/ PlannerResponse

PlannerSpec == PlannerInit /\ [][PlannerNext]_vars

\* ------------------------------------------------------------ properties
\* Invocation s has written activePlan and has neither returned nor thrown.
InLoop(s) ==
    inv[s].pc \in {"write_note", "child", "evidence", "write", "decision", "merge",
                   "fmerge", "fwrite", "baseline", "exec", "apply", "xevidence",
                   "noop_grep", "retry_diff", "final_evidence"}

Last(seq) == seq[Len(seq)]
HasEvent(ev, name) == \E i \in 1..Len(ev) : ev[i][1] = name

\* C1: at most one run is active at any time: no two invocations of
\* runPlanInternal are both past admission and not yet ended, whether the
\* second request came after the first was admitted or during its admission
\* checks.
C1_AtMostOneActiveRun == Cardinality({s \in Runs : InLoop(s)}) <= 1

\* C2: every admitted run emits exactly one run:done, and it is the last
\* event with its runId: no event follows a run:done in the events of a
\* runId, and an invocation that has ended has sent its run:done.
C2_ExactlyOneDoneLast ==
    /\ \A rid \in RunIds : \A i \in 1..Len(events[rid]) :
          events[rid][i][1] = "done" => i = Len(events[rid])
    /\ \A s \in Runs : inv[s].pc \in {"done", "crashed"}
          => HasEvent(events[inv[s].runId], "done")

\* C3: a run:cancel that returns true sends SIGTERM to the child the active
\* run supervises, resolves the decision it waits for as rejected, emits
\* run:cancelled, and no run:step with that runId is emitted afterwards.
C3_CancelStep ==
    /\ (cancelResp' # cancelResp /\ cancelResp'.ok) =>
          LET rid == cancelResp'.runId
              s == activePlan
          IN  /\ child[s].alive => child'[s].term
              /\ inv[s].pc = "decision"
                    => inv'[s].pc = "merge" /\ inv'[s].decisionResult = "rejected"
              /\ Last(events'[rid]) = <<"cancelled", 0>>
    /\ \A rid \in RunIds :
          (HasEvent(events[rid], "cancelled") /\ events'[rid] # events[rid])
             => Last(events'[rid])[1] # "step"
C3_CancelStopsRun == [][C3_CancelStep]_vars

\* C4: a run for which run:cancel returned true ends with cancelled = true
\* and exitCode = -1 in its finalized run.json, wherever the cancel arrived.
C4_CancelRecorded ==
    \A s \in Runs :
       (/\ inv[s].pc = "done"
        /\ planCancelled[s]
        /\ cancelResp.ok /\ cancelResp.runId = inv[s].runId)
       => disk[inv[s].runId].cancelled /\ disk[inv[s].runId].exitCode = -1

\* C5: run:cancel for a runId that is not the active run's returns false and
\* changes nothing: no flag, no child, no pending decision, no event, no file.
C5_RefusedCancelStep ==
    cancelResp' # cancelResp =>
       ((activePlan = None \/ inv[activePlan].runId # cancelResp'.runId)
          => /\ ~cancelResp'.ok
             /\ UNCHANGED <<inv, activePlan, planCancelled, activeRun, child,
                            timeoutTimers, killTimers, pendingDecisions, disk, events,
                            abVars>>)
C5_RefusedCancelChangesNothing == [][C5_RefusedCancelStep]_vars

\* C5 witness: run:cancel was refused for an id while a run with another id
\* is active and supervises a child.
C5_Witness ==
    /\ cancelResp.runId # None /\ ~cancelResp.ok
    /\ activePlan # None /\ inv[activePlan].runId # cancelResp.runId
    /\ inv[activePlan].pc = "child"

\* C6: in synchronous mode an invocation waiting at the gate starts no step
\* until a decision is delivered; on rejected it leaves the loop with
\* cancelled_by_decision, which its final run.json records; on approved, after
\* a step that was not blocked, it goes on with the next step, or ends
\* normally after the last one.
C6_SyncGateStep ==
    \A s \in Runs : inv[s].mode = "sync" =>
       LET r == inv[s]
           left == r.pc = "merge" /\ inv'[s].pc # "merge"
       IN  /\ r.pc = "decision" => inv'[s].pc \in {"decision", "merge"}
           /\ (left /\ ~r.stepMeta.blocked_by_policy /\ r.decisionResult = "rejected")
                 => inv'[s].pc = "fmerge" /\ inv'[s].cancelledByDecision
           /\ (r.pc = "fwrite" /\ inv'[s].pc = "done" /\ r.cancelledByDecision)
                 => disk'[r.runId].cancelled_by_decision
           /\ (left /\ ~r.stepMeta.blocked_by_policy /\ r.decisionResult = "approved")
                 => IF r.index < r.total
                    THEN /\ inv'[s].index = r.index + 1
                         /\ inv'[s].pc \in {"write_note", "child", "evidence"}
                    ELSE inv'[s].pc = "fmerge"
C6_SyncGate == [][C6_SyncGateStep]_vars

\* C7: in asynchronous mode the gate never blocks: the invocation never
\* waits for a decision; when the gate asks for one the loop is left with
\* decisionPending and no further step record; the final run.json has
\* decision_pending and endTime and ends at the gating step, run:done is the
\* last event sent, and autobuild stops with stop_reason decision_pending.
C7_AsyncGateStep ==
    \A s \in Runs : (inv[s].mode = "async" /\ InLoop(s)) =>
       LET r == inv[s] IN
       /\ inv'[s].pc # "decision"
       /\ (/\ inv'[s] # r
           /\ events'[r.runId] # events[r.runId]
           /\ Last(events'[r.runId]) = <<"decision", r.index>>)
             => /\ inv'[s].pc = "fmerge"
                /\ inv'[s].decisionPending
                /\ Len(inv'[s].runMeta.steps) = r.index
       /\ (r.pc = "fwrite" /\ inv'[s].pc = "done" /\ r.decisionPending)
             => /\ disk'[r.runId].decision_pending
                /\ disk'[r.runId].endTime
                /\ Len(disk'[r.runId].steps) = r.index
                /\ Last(events'[r.runId])[1] = "done"
                /\ ab'.pc = "done" /\ ab'.stopReason = "decision_pending"
C7_AsyncGate == [][C7_AsyncGateStep]_vars

\* C7 witness: autobuild has stopped with decision_pending after a run whose
\* run.json says decision_pending.
C7_Witness ==
    /\ ab.pc = "done" /\ ab.stopReason = "decision_pending"
    /\ \E s \in Runs : /\ inv[s].mode = "async" /\ inv[s].pc = "done"
                        /\ disk[inv[s].runId].decision_pending

\* C8: once run:decision has returned true, run.json holds the decision
\* with the submitted result, and keeps it through the later writes.
C8_DecisionKept ==
    \A d \in Subs : sub[d].ret = "true"
       => /\ disk[sub[d].runId].exists
          /\ disk[sub[d].runId].decision.result = sub[d].result

\* C9: a run:cancel that is accepted while a run waits for its decision
\* resolves the decision as rejected and removes the entry of the decision
\* map; the resumed invocation leaves the loop without another step.
C9_CancelPendingStep ==
    /\ (cancelResp' # cancelResp /\ cancelResp'.ok) =>
          /\ \A s \in Runs :
                (inv[s].runId = cancelResp'.runId /\ inv[s].pc = "decision")
                   => inv'[s].pc = "merge" /\ inv'[s].decisionResult = "rejected"
          /\ pendingDecisions'[cancelResp'.runId] = NoPending
    /\ \A s \in Runs :
          (/\ inv[s].pc = "merge" /\ inv'[s].pc # "merge"
           /\ inv[s].decisionResult = "rejected")
             => inv'[s].pc = "fmerge"
C9_CancelWhilePending == [][C9_CancelPendingStep]_vars

\* A step that violates the policy.
Violating(st) ==
    \/ st.type = "cmd" /\ (~isCommandAllowed(st.command)
                            \/ hasForbiddenShellOperators(st.command))
    \/ st.type = "executor" /\ ~isExecutorToolAllowed(st.tool)

\* C10: a step that violates the policy spawns no child and is flagged, and
\* evidence is collected for it; the invocation then starts no other step and
\* does not throw; its final run.json has blocked_by_policy on the run and on
\* the last step record, which has evidence, and exitCode -1, and run:done
\* carries exitCode -1.
C10_PolicyStep ==
    \A s \in Runs :
       LET r == inv[s] IN
       /\ (inv'[s].index = r.index + 1 /\ Violating(inv'[s].step))
             => /\ inv'[s].stepMeta.blocked_by_policy /\ inv'[s].blockedByPolicy
                /\ inv'[s].pc = "evidence"
                /\ child'[s] = child[s] /\ inv'[s].nchild = r.nchild
       /\ (r.blockedByPolicy /\ inv'[s].pc # "done")
             => /\ inv'[s].index = r.index
                /\ inv'[s].pc \in {"evidence", "write", "decision", "merge", "fmerge",
                                    "fwrite"}
                /\ child'[s] = child[s]
       /\ (r.blockedByPolicy /\ inv'[s].pc = "done")
             => LET f == disk'[r.runId] IN
                /\ r.pc = "fwrite"
                /\ f.blocked_by_policy /\ f.exitCode = -1 /\ f.endTime
                /\ Len(f.steps) = r.index
                /\ Last(f.steps).blocked_by_policy /\ Last(f.steps).has_evidence
                /\ Last(events'[r.runId]) = <<"done", -1>>
C10_PolicyBlock == [][C10_PolicyStep]_vars

\* C10 witness: a run of two steps has ended at a blocked second step.
C10_Witness ==
    \E s \in Runs :
       /\ inv[s].pc = "done"
       /\ disk[inv[s].runId].blocked_by_policy
       /\ Len(disk[inv[s].runId].steps) = 2
       /\ HasEvent(events[inv[s].runId], "done")

\* C11: a timeout is recorded on the step and on the run: in the final
\* run.json of a run that has ended, a step record with timeout = true comes
\* with timeout = true on the run, whatever the exit code of the terminated
\* child and whether or not a cancel arrived during the kill grace period.
C11_TimeoutRecorded ==
    \A s \in Runs : inv[s].pc = "done" =>
       LET f == disk[inv[s].runId] IN
       \A i \in 1..Len(f.steps) : f.steps[i].timeout => f.timeout

\* C12: termination escalates in both launch modes: when the kill-grace
\* timer of a child fires and the child has not exited, the hard-kill signal
\* is sent to it.
C12_EscalationStep ==
    \A cid \in killTimers \ killTimers' :
       (/\ child[cid[1]].alive /\ child[cid[1]].n = cid[2]
        /\ child'[cid[1]].alive /\ child'[cid[1]].n = cid[2])
          => child'[cid[1]].hard
C12_Escalates == [][C12_EscalationStep]_vars

\* C13: the executor tool runs as two sequential children per invocation:
\* the apply child is spawned when the exec child has closed, and only if that
\* child exited 0 and no SIGTERM was sent to it for a cancel or a timeout;
\* otherwise no apply child is spawned and the result of the exec child is
\* the result of the invocation.
C13_TwoChildrenStep ==
    \A s \in Runs :
       /\ (inv[s].pc = "exec" /\ inv'[s].pc = "apply")
             => /\ ~child[s].term
                /\ inv'[s].result = [exitCode |-> 0, cancelled |-> FALSE, timedOut |-> FALSE]
                /\ child'[s].alive /\ child'[s].n = child[s].n + 1
       /\ inv'[s].pc = "apply" => inv[s].pc \in {"exec", "apply"}
       /\ (inv[s].pc = "exec" /\ inv'[s].pc \notin {"exec", "apply"})
             => /\ inv'[s].pc \in {"xevidence", "retry_diff"}
                /\ ~child'[s].alive /\ inv'[s].nchild = inv[s].nchild
C13_TwoChildren == [][C13_TwoChildrenStep]_vars

\* The step records of the invocations and of the run.json files.
Range(seq) == {seq[i] : i \in 1..Len(seq)}
StepRecords ==
    UNION {Range(inv[s].runMeta.steps) : s \in Runs}
    \cup UNION {Range(disk[r].steps) : r \in {x \in RunIds : disk[x].exists}}
Evaluations == {rec.evaluation : rec \in {x \in StepRecords : x.evaluation.present}}

\* C14: for every executor step record whose exit_code is 0,
\* suspicious_no_change is set if and only if changed_files is empty, that is
\* has_changes is false, where changed_files is current_files without the
\* files of baseline_files, in the order of current_files.
C14_SuspiciousNoChange ==
    \A rec \in StepRecords :
       (rec.type = "executor" /\ rec.evaluation.present /\ rec.exit_code = 0) =>
          LET e == rec.evaluation
              fresh(file) == file \notin Range(e.baseline_files)
          IN  /\ e.suspicious_no_change <=> e.changed_files = << >>
              /\ e.has_changes <=> e.changed_files # << >>
              /\ e.changed_files = SelectSeq(e.current_files, fresh)

\* C14 witness: a recorded executor step with exit code 0 whose diff is not
\* empty but holds nothing new against the baseline: suspicious_no_change.
C14_Witness ==
    \E r \in RunIds : disk[r].exists /\ \E rec \in Range(disk[r].steps) :
       /\ rec.type = "executor" /\ rec.exit_code = 0
       /\ rec.evaluation.current_files # << >>
       /\ rec.evaluation.suspicious_no_change

\* C15: the no-change retry is single-shot and gated: within an executor
\* step the tool is invoked a second time exactly when the evaluation has
\* suspicious_no_change and not no_op, and never a third time; in every
\* recorded evaluation retried holds exactly when suspicious_no_change holds
\* and no_op does not, and retry_result is present exactly when retried.
C15_RetryStep ==
    /\ \A s \in Runs :
          LET r == inv[s] IN
          /\ (r.pc # "exec" /\ inv'[s].pc = "exec")
                => \/ r.pc = "baseline" /\ ~inv'[s].evaluation.retried
                   \/ /\ r.pc = "xevidence"
                      /\ inv'[s].evaluation.retried
                      /\ inv'[s].evaluation.suspicious_no_change
                      /\ ~inv'[s].evaluation.no_op
                      /\ inv'[s].nchild <= r.nchild + 1
          /\ (r.pc = "xevidence" /\ inv'[s].pc \notin {"xevidence", "exec"})
                => LET e == inv'[s].stepMeta.evaluation IN
                   e.no_op \/ ~e.suspicious_no_change
          /\ (r.pc = "retry_diff" /\ inv'[s].pc # "retry_diff")
                => inv'[s].pc = "final_evidence"
    /\ \A e \in Evaluations' :
          /\ e.retried <=> (e.suspicious_no_change /\ ~e.no_op)
          /\ e.retry_result.present <=> e.retried
C15_SingleRetry == [][C15_RetryStep]_vars

\* C15 witness: a recorded evaluation with a retry, and one with no_op.
C15_Witness ==
    /\ \E e \in Evaluations : e.retried /\ e.retry_result.present
    /\ \E s \in Runs : inv[s].lastExecutorEvaluation.no_op

\* C16: when an executor step exits 0 with no changed files and the cmd step
\* just before it began with `git grep` and printed something, the
\* evaluation has no_op and the tool is not invoked again.
C16_NoOpStep ==
    \A s \in Runs :
       LET r == inv[s]
           e == IF inv'[s].evaluation.present THEN inv'[s].evaluation
                ELSE inv'[s].stepMeta.evaluation
       IN  (/\ r.pc = "xevidence" /\ inv'[s].pc # "xevidence"
            /\ r.grepHit /\ r.result.exitCode = 0 /\ ~e.has_changes)
              => e.no_op /\ ~e.retried /\ inv'[s].pc = "noop_grep"
C16_NoOpAfterGrep == [][C16_NoOpStep]_vars

\* C17: when the run of iteration k of max has returned, the loop of
\* autobuild:start takes the first rule that matches: decisionPending stops
\* with decision_pending; cancelled with cancelled; no_op with no_op;
\* suspicious_no_change, retried and no change in the retry with
\* retry_no_change; a non-zero exit code goes on to iteration k + 1 if
\* k < max and stops with failed otherwise; k = max stops with
\* max_iterations_reached; and autobuild:done carries the reason taken.
C17_ClassifyStep ==
    \A s \in Runs :
       (inv[s].mode = "async" /\ inv[s].pc = "fwrite" /\ inv'[s].pc = "done") =>
          LET r == inv[s]
              k == ab.iteration
              e == r.lastExecutorEvaluation
              stop(reason) ==
                  /\ ab'.pc = "done" /\ ab'.stopReason = reason
                  /\ ab'.iteration = k
                  /\ Last(ab'.sent) = <<"done", ab.iterationsRun + 1, reason>>
                  /\ ~autobuildActive'
              continue ==
                  /\ ab'.iteration = k + 1
                  /\ \/ ab'.pc = "planning" /\ autobuildActive'
                     \/ /\ autobuildCancelled
                        /\ ab'.pc = "done" /\ ab'.stopReason = "cancelled"
          IN  IF r.decisionPending THEN stop("decision_pending")
              ELSE IF r.cancelled THEN stop("cancelled")
              ELSE IF e.no_op THEN stop("no_op")
              ELSE IF /\ e.suspicious_no_change /\ e.retried
                      /\ ~(e.retry_result.present /\ e.retry_result.has_changes)
              THEN stop("retry_no_change")
              ELSE IF r.lastExitCode # 0 /\ k < ab.maxIterations THEN continue
              ELSE IF r.lastExitCode # 0 THEN stop("failed")
              ELSE IF k >= ab.maxIterations THEN stop("max_iterations_reached")
              ELSE continue
C17_Classification == [][C17_ClassifyStep]_vars

\* C17 witness: autobuild has stopped with retry_no_change in its first
\* iteration of two after a run whose retry failed: the evaluation is looked
\* at before the exit code.
C17_Witness ==
    /\ ab.pc = "done" /\ ab.stopReason = "retry_no_change"
    /\ ab.iteration = 1 /\ ab.maxIterations = 2
    /\ \E r \in RunIds : /\ disk[r].exists /\ disk[r].endTime /\ disk[r].exitCode # 0
                           /\ \E rec \in Range(disk[r].steps) : rec.evaluation.retried

\* C18: autobuild:start is refused with 'Another run is already active'
\* whenever an autobuild is active or a run holds the active plan; a refused
\* start sends no autobuild event and changes neither autobuildActive nor
\* autobuildCancelled, nor the loop that is active.
C18_RefusedStartStep ==
    (starts' # starts /\ (autobuildActive \/ activePlan # None))
       => /\ startResp' = "Another run is already active"
          /\ UNCHANGED <<ab, autobuildActive, autobuildCancelled, inv, activePlan,
                         events, disk>>
C19_PlanningStep ==
    (ab.pc = "planning" /\ ab' # ab) =>
       /\ ab'.pc = "threw" => inv' # inv
       /\ ab'.pc \in {"running", "threw", "done"}
       /\ ab'.pc = "done" => ab'.stopReason \in {"cancelled", "planning_failed"}
       /\ (ab'.pc = "done" /\ ab'.stopReason = "planning_failed")
             => /\ ab'.sent = ab.sent \o << <<"status", ab.iteration, "Planning failed">>,
                                            <<"done", ab.iteration - 1, "planning_failed">> >>
                /\ ab'.iterationsRun = ab.iteration - 1
                /\ UNCHANGED <<inv, activePlan, events, disk>>
                /\ ~autobuildActive'
C19_PlanningFailure == [][C19_PlanningStep]_vars

\* C19 witness: the planner has failed in the second iteration.
C19_Witness ==
    /\ ab.pc = "done" /\ ab.stopReason = "planning_failed" /\ ab.iterationsRun = 1
    /\ \E s \in Runs : inv[s].mode = "async" /\ inv[s].pc = "done"

\* C20: the events of an iteration are ordered: what autobuild sends for
\* iteration k is status planning, plan, status running, status done, in
\* this order; an event with the runId of the iteration's run is sent only
\* between status running and status done; and status planning of iteration
\* k + 1 is sent only when run:done of the run of iteration k has been.
Phase(event) ==
    IF event[1] = "plan" THEN 2
    ELSE IF event[3] = "planning" THEN 1
    ELSE IF event[3] = "running" THEN 3
    ELSE 4
C20_OrderStep ==
    /\ \A i \in 1..Len(ab'.sent), j \in 1..Len(ab'.sent) :
          (i < j /\ ab'.sent[i][1] # "done" /\ ab'.sent[j][1] # "done")
             => \/ ab'.sent[i][2] < ab'.sent[j][2]
                \/ /\ ab'.sent[i][2] = ab'.sent[j][2]
                   /\ Phase(ab'.sent[i]) < Phase(ab'.sent[j])
    /\ \A s \in Runs :
          (/\ inv[s].mode = "async" /\ inv[s].runId # None
           /\ events'[inv[s].runId] # events[inv[s].runId])
             => /\ ab.pc = "running"
                /\ Last(ab.sent) = <<"status", ab.iteration, "running">>
    /\ (ab.pc = "running" /\ ab'.iteration = ab.iteration + 1)
          => \E s \in Runs : /\ inv[s].mode = "async" /\ inv[s].pc = "fwrite"
                              /\ inv'[s].pc = "done"
                              /\ Last(events'[inv[s].runId])[1] = "done"
C20_EventOrder == [][C20_OrderStep]_vars

\* C21: once autobuild:cancel was requested while an autobuild is active, the
\* controller begins no planning step and admits no run, and the request
\* itself sets the cancel flag of a run that is active and sends SIGTERM to
\* the child that run supervises.
C21_CancelStep ==
    /\ (autobuildActive /\ autobuildCancelled) =>
          /\ ab'.pc = "planning" => ab.pc = "planning"
          /\ ab'.pc = "running" => ab.pc = "running"
          /\ \A s \in Runs : inv[s].mode = "async" /\ InLoop(s)' => InLoop(s)
    /\ (autobuildActive /\ ~autobuildCancelled /\ autobuildCancelled') =>
          \A s \in Runs : InLoop(s) =>
             /\ planCancelled'[s]
             /\ child[s].alive => child'[s].term
C21_AutobuildCancel == [][C21_CancelStep]_vars

\* C22: an admitted autobuild:start emits exactly one autobuild:done, as its
\* last autobuild event, with autobuildActive released: no autobuild event
\* follows an autobuild:done, and a handler that has ended, by whatever path,
\* has sent its autobuild:done and reset the flag.
C22_AutobuildDone ==
    /\ \A i \in 1..Len(ab.sent) : ab.sent[i][1] = "done" => i = Len(ab.sent)
    /\ ab.pc \in {"done", "threw"} =>
          /\ ab.sent # << >>
          /\ Last(ab.sent)[1] = "done"
          /\ ~autobuildActive

\* The autobuild:status events of phase what that the handler has sent.
Statuses(what) ==
    Cardinality({i \in 1..Len(ab.sent) : ab.sent[i][1] = "status" /\ ab.sent[i][3] = what})

\* C23: the autobuild loop is bounded: the planner is called at most
\* maxIterations times and at most maxIterations runs are executed;
\* iterations_run of autobuild:done is the number of runs executed, at most
\* maxIterations, and equals maxIterations when stop_reason is failed or
\* max_iterations_reached after at least one run.
C23_LoopBounded ==
    /\ Statuses("planning") <= ab.maxIterations
    /\ Statuses("running") <= ab.maxIterations
    /\ ab.pc = "done" =>
          LET done == Last(ab.sent) IN
          /\ done[1] = "done"
          /\ done[2] = Statuses("running")
          /\ done[2] <= ab.maxIterations
          /\ (done[3] \in {"failed", "max_iterations_reached"} /\ done[2] >= 1)
                => done[2] = ab.maxIterations

\* Two iterations were planned and run, and the loop ended at its bound.
C23_Witness ==
    /\ ab.pc = "done"
    /\ ab.maxIterations = 2
    /\ Last(ab.sent) = <<"done", 2, "max_iterations_reached">>
    /\ Statuses("planning") = 2
    /\ Statuses("running") = 2

\* C24: a cmd step whose command begins with git grep and whose child exits
\* with 1, neither cancelled nor timed out, has effective exit code 0; any
\* other exit code of a cmd child is the exit code of the step.  A cmd step
\* with effective exit code 0 does not end the run: when no decision is asked
\* for and no cancel was requested the next step is started, and after the
\* last step the run ends with exitCode 0.  A cmd step with another exit code
\* ends the run with that exit code.
C24_GrepStep ==
    \A s \in Runs :
       LET r == inv[s]
           sm == inv'[s].stepMeta
           grepNoMatch == startsWith(r.step.command, GIT_GREP) /\ sm.exit_code = 1
           plain == /\ r.stepMeta.type = "cmd"
                    /\ ~r.stepMeta.blocked_by_policy
                    /\ ~r.stepMeta.cancelled
                    /\ ~r.stepMeta.timeout
       IN  /\ (r.pc = "child" /\ inv'[s].pc = "evidence" /\ ~sm.cancelled /\ ~sm.timeout) =>
                inv'[s].lastExitCode = IF grepNoMatch THEN 0 ELSE sm.exit_code
           /\ (r.pc = "write" /\ inv'[s].pc # "write" /\ plain /\ r.lastExitCode # 0) =>
                /\ inv'[s].pc = "fmerge"
                /\ inv'[s].lastExitCode = r.lastExitCode
           /\ (r.pc = "write" /\ inv'[s].pc # "write" /\ plain /\ r.lastExitCode = 0
               /\ GateFiles(r.evidence) = << >>
               /\ \A t \in Runs : ~planCancelled[t]) =>
                IF r.index < r.total
                THEN /\ inv'[s].index = r.index + 1
                     /\ inv'[s].pc \in {"write_note", "child", "evidence", "baseline"}
                     /\ Last(events'[r.runId]) \in {<<"step", r.index + 1>>,
                                                    <<"output", r.index + 1>>}
                ELSE inv'[s].pc = "fmerge" /\ inv'[s].lastExitCode = 0
           /\ (r.pc = "fmerge" /\ inv'[s].pc = "fwrite") =>
                inv'[s].runMeta.exitCode = r.lastExitCode
           /\ (r.pc = "fwrite" /\ inv'[s].pc = "done") =>
                Last(events'[r.runId]) = <<"done", r.runMeta.exitCode>>
C24_GrepNoMatch == [][C24_GrepStep]_vars

\* C25: distinct runs have distinct run ids, and a run admitted later has a
\* run id that sorts after every earlier one: the runId an invocation takes
\* is greater than every runId taken before it, also when both are taken
\* within one tick of the clock.
C25_RunIdStep ==
    \A s \in Runs :
       (inv[s].runId = 0 /\ inv'[s].runId # 0) =>
          \A t \in Runs \ {s} : inv[t].runId # 0 => inv[t].runId < inv'[s].runId
C25_UniqueRunIds == [][C25_RunIdStep]_vars

\* The plan policy: at most 8 steps, at least one note, and every cmd command
\* non-empty and allowlisted.
SatisfiesPolicy(plan) ==
    /\ Len(plan) <= 8
    /\ \E i \in 1..Len(plan) : plan[i].type = "note"
    /\ \A i \in 1..Len(plan) :
          plan[i].type = "cmd" => /\ trim(plan[i].command) # << >>
                                  /\ isCommandAllowed(trim(plan[i].command))

\* C26: the same validator guards generatePlan and runPlan: a plan that
\* generatePlan returns or that runPlan admits satisfies the plan policy, so
\* that a plan of 9 steps, a plan without a note and a plan with an empty or
\* non-allowlisted command are rejected by both before any step runs; and a
\* plan of exactly 8 steps that satisfies the policy is accepted by both.
C26_SamePolicy ==
    /\ policy.generated = "returned" => SatisfiesPolicy(policy.plan)
    /\ policy.pc \in {"admitted", "ended"} => SatisfiesPolicy(policy.plan)
    /\ (Len(policy.plan) = 8 /\ SatisfiesPolicy(policy.plan)
        /\ ~planHasForbiddenCmdOps(policy.plan)) =>
          /\ policy.generated # "rejected"
          /\ policy.pc # "refused"

\* The word characters of a regular expression: letters, digits and _.
WordChars ==
    {"a","b","c","d","e","f","g","h","i","j","k","l","m","n","o","p","q","r","s","t",
     "u","v","w","x","y","z","A","B","C","D","E","F","G","H","I","J","K","L","M","N",
     "O","P","Q","R","S","T","U","V","W","X","Y","Z","0","1","2","3","4","5","6","7",
     "8","9","_"}

\* The rule of the allowlist: after the leading white space an allowed token,
\* followed by the end of the string or by a character that is not a word
\* character.
AllowedByRule(command) ==
    LET str == trimStart(command) IN
    \E prefix \in ALLOWED_COMMAND_PREFIXES :
       /\ startsWith(str, prefix)
       /\ Len(str) > Len(prefix) => str[Len(prefix) + 1] \notin WordChars

\* C27: isCommandAllowed(command) is true exactly when the command, after its
\* leading white space, begins with the token git followed by a word boundary;
\* at run time a cmd step whose command the rule does not allow is blocked by
\* policy, and one the rule allows is not blocked for its command.
C27_AllowedCommands ==
    \A i \in 1..Len(policy.outcome) :
       LET step == policy.plan[i] IN
       step.type = "cmd" =>
          /\ isCommandAllowed(step.command) <=> AllowedByRule(step.command)
          /\ ~AllowedByRule(step.command) => policy.outcome[i] = "blocked"
          /\ (AllowedByRule(step.command) /\ ~hasForbiddenShellOperators(step.command))
                => policy.outcome[i] = "run"

IsPrefix(seq, of) == Len(seq) <= Len(of) /\ SubSeq(of, 1, Len(seq)) = seq

\* C29: run.json is a prefix-consistent view of the run.  No write of
\* run.json removes a step record that the file contained; when run:step of
\* step i + 1 is sent the file holds the records of the steps 1..i of the run,
\* in order; and when run:done is sent it holds the records of all the steps
\* the run has completed.
C29_PrefixStep ==
    /\ \A rid \in RunIds :
          disk[rid].exists =>
             /\ disk'[rid].exists
             /\ IsPrefix(disk[rid].steps, disk'[rid].steps)
    /\ \A s \in Runs :
          LET r == inv[s]
              file == disk'[r.runId]
          IN  /\ (InLoop(s) /\ InLoop(s)' /\ inv'[s].index = r.index + 1) =>
                    /\ file.exists
                    /\ Len(r.runMeta.steps) = r.index
                    /\ IsPrefix(r.runMeta.steps, file.steps)
              /\ (r.pc = "fwrite" /\ inv'[s].pc = "done") =>
                    /\ file.exists
                    /\ IsPrefix(r.runMeta.steps, file.steps)
C29_PrefixConsistent == [][C29_PrefixStep]_vars

\* A decision was delivered for runId rid: a run:decision request for it has
\* returned true.
Delivered(rid) == \E d \in Subs : sub[d].ret = "true" /\ sub[d].runId = rid

\* C30 as stated: the decision map holds the entry of a runId only until
\* decision delivery, cancel or run completion: once a run has emitted
\* run:done without a decision having been delivered, the map holds no entry
\* for its runId.
C30_NoEntryAfterDone ==
    \A s \in Runs :
       (inv[s].pc = "done" /\ ~Delivered(inv[s].runId))
          => pendingDecisions[inv[s].runId] = NoPending

\* C30, amended: an entry is put into the decision map by the gate of a run
\* with that runId only, and it is removed by the delivery of a decision or by
\* an accepted cancel of that run only; the completion of the run leaves it
\* where it is.
C30_EntryStep ==
    \A rid \in RunIds :
       /\ (pendingDecisions[rid] = NoPending /\ pendingDecisions'[rid] # NoPending) =>
             \E s \in Runs :
                /\ inv[s].runId = rid
                /\ inv[s].pc = "write"
                /\ GateFiles(inv[s].evidence) # << >>
                /\ pendingDecisions'[rid].owner = s
                /\ inv'[s].pc = IF inv[s].mode = "sync" THEN "decision" ELSE "fmerge"
       /\ (pendingDecisions[rid] # NoPending /\ pendingDecisions'[rid] = NoPending) =>
             \/ \E d \in Subs : /\ sub[d].pc = "write"
                                /\ sub[d].runId = rid
                                /\ sub'[d].ret = "true"
             \/ /\ cancels' = cancels + 1
                /\ cancelResp' = [runId |-> rid, ok |-> TRUE]
       /\ (\E s \in Runs : inv[s].runId = rid /\ inv[s].pc = "fwrite" /\ inv'[s].pc = "done")
             => pendingDecisions'[rid] = pendingDecisions[rid]
C30_EntryLifetime == [][C30_EntryStep]_vars

\* A run in asynchronous mode has emitted run:done with its decision pending,
\* no decision was delivered, and its entry is in the map.
C30_Witness ==
    \E s \in Runs :
       /\ inv[s].pc = "done"
       /\ inv[s].mode = "async"
       /\ disk[inv[s].runId].exists
       /\ disk[inv[s].runId].decision_pending
       /\ ~Delivered(inv[s].runId)
       /\ pendingDecisions[inv[s].runId].owner = s
       /\ Last(events[inv[s].runId])[1] = "done"

\* C31: the active-run slot is released on every path by which an admitted
\* run ends: when no invocation of runPlanInternal is past admission and not
\* yet ended, activePlan is null, so that the next run:plan is not refused
\* with "Another run is already active".
C31_SlotReleased == (\A s \in Runs : ~InLoop(s)) => activePlan = None

\* A response that parsed and validated and has a forbidden shell operator in
\* a cmd step.
ForbiddenOnly(response) ==
    /\ response.kind = "plan"
    /\ validateGeneratedPlan(response.plan) = {}
    /\ planHasForbiddenCmdOps(response.plan)

\* C32: generatePlan calls the completion endpoint at most twice; the second
\* call carries the reminder and is made only after a first response that
\* parsed and validated and has a forbidden shell operator in a cmd step; if
\* the second plan has one too the call fails; every other failure fails at
\* once; a plan that is returned has no forbidden shell operator in a cmd step.
C32_PlannerRetry ==
    LET calls == policy.calls
        responses == policy.responses
        over == policy.pc \in {"returned", "failed"}
    IN  /\ Len(calls) <= 2
        /\ Len(responses) <= Len(calls)
        /\ Len(calls) >= 1 => calls[1] = "base"
        /\ Len(calls) = 2 => calls[2] = "base+hint" /\ ForbiddenOnly(responses[1])
        /\ (Len(responses) = 2 /\ ForbiddenOnly(responses[2]))
              => policy.pc = "failed"
                 /\ policy.error = "Planner output includes forbidden shell operators"
        /\ \A i \in 1..Len(responses) :
              (responses[i].kind # "plan" \/ validateGeneratedPlan(responses[i].plan) # {})
                 => policy.pc = "failed" /\ Len(calls) = i /\ Len(responses) = i
        /\ (Len(responses) = 1 /\ ForbiddenOnly(responses[1])) => Len(calls) = 2
        /\ policy.pc = "returned" =>
              /\ policy.plan = responses[Len(responses)].plan
              /\ responses[Len(responses)].kind = "plan"
              /\ ~planHasForbiddenCmdOps(policy.plan)
        /\ (over /\ Len(calls) = 2) => Len(responses) = 2

\* The first plan had a forbidden shell operator, the second request carried
\* the reminder, and the second plan was returned.
C32_Witness ==
    /\ policy.pc = "returned"
    /\ policy.calls = <<"base", "base+hint">>
    /\ ForbiddenOnly(policy.responses[1])
    /\ \E i \in 1..Len(policy.plan) : policy.plan[i].type = "cmd"

\* C33: after run:cancel has returned true for a run, no child process is
\* spawned for that run any more: not the exec child after the baseline
\* capture, not the apply child, not the retry, not the child of a later step.
C33_CancelStep ==
    \A s \in Runs :
       (/\ inv[s].runId # None
        /\ planCancelled[s]
        /\ cancelResp.ok /\ cancelResp.runId = inv[s].runId)
       => inv'[s].nchild <= inv[s].nchild
C33_NoSpawnAfterCancel == [][C33_CancelStep]_vars

\* C34: in the finalized run.json of a run in synchronous mode, once every
\* run:decision request for it has returned, cancelled_by_decision is set
\* exactly when the record holds the decision "rejected"; a record with the
\* decision "approved" never has it.
C34_DecisionConsistent ==
    \A s \in Runs :
       LET file == disk[inv[s].runId] IN
       (/\ inv[s].pc = "done"
        /\ inv[s].mode = "sync"
        /\ file.exists /\ file.endTime
        /\ \A d \in Subs : sub[d].pc \in {"read", "write"} => sub[d].runId # inv[s].runId)
       => (file.cancelled_by_decision <=> file.decision.result = "rejected")

\* C35: the decision merge of run:decision never loses an update of the run:
\* once run:done was sent and every run:decision request has returned,
\* run.json holds endTime, exitCode, the run-level flags and all the step
\* records the run has written, whatever the interleaving of the merge with
\* the final write of the run.
C35_NoLostUpdate ==
    \A s \in Runs :
       LET file == disk[inv[s].runId] IN
       (/\ inv[s].pc = "done"
        /\ \A t \in Runs : t # s => inv[t].runId # inv[s].runId
        /\ \A d \in Subs : sub[d].pc \in {"read", "write"} => sub[d].runId # inv[s].runId)
       => /\ file.exists
          /\ file.endTime
          /\ Len(file.steps) >= 1
          /\ file.exitCode = Last(events[inv[s].runId])[2]

\* C36: a decision request is answered at most once: a run:decision request
\* returns true only for a waiter that is still in the map when it returns,
\* that is, one that no other run:decision request and no run:cancel has
\* resolved in the meantime, and its result is the one the run acts on.
C36_AnswerStep ==
    \A d \in Subs :
       (sub[d].pc = "write" /\ sub'[d].ret = "true") =>
          /\ pendingDecisions[sub[d].runId] = sub[d].pending
          /\ sub[d].pending.waiting =>
                LET s == sub[d].pending.owner IN
                /\ inv[s].pc = "decision"
                /\ inv'[s].pc = "merge"
                /\ inv'[s].decisionResult = sub[d].result
C36_AnsweredOnce == [][C36_AnswerStep]_vars

\* C37: one approval covers the files it listed for the rest of the run: a
\* step after which the modified dependency files are the ones that were
\* approved already emits no further run:decision and does not wait.
C37_GateStep ==
    \A s \in Runs :
       (/\ inv[s].pc = "write"
        /\ inv[s].mode = "sync"
        /\ inv[s].runMeta.decision.result = "approved"
        /\ inv[s].runMeta.decision.files = GateFiles(inv[s].evidence))
       => /\ inv'[s].pc # "decision"
          /\ ~\E i \in 1..Len(events'[inv[s].runId]) :
                events'[inv[s].runId][i] = <<"decision", inv[s].index>>
C37_ApprovalCovers == [][C37_GateStep]_vars

\* C38: if autobuild:cancel is requested while an autobuild is active, the
\* autobuild:done of that autobuild carries the stop reason "cancelled",
\* wherever in the iteration the request has arrived.
C38_CancelStep ==
    (/\ ab.pc \in {"planning", "running"}
     /\ autobuildCancelled
     /\ ab'.pc = "done")
    => /\ ab'.stopReason = "cancelled"
       /\ Last(ab'.sent)[1] = "done" /\ Last(ab'.sent)[3] = "cancelled"
C38_CancelledReason == [][C38_CancelStep]_vars

\* C39: while an autobuild is active, a run:plan request of the front-end is
\* refused: no invocation of runPlanInternal in synchronous mode passes the
\* preflight while autobuildActive is set, also during planning, when no run
\* is active.
C39_RunPlanStep ==
    \A s \in Runs :
       (autobuildActive /\ inv[s].pc = "idle" /\ inv'[s].pc # "idle" /\ inv'[s].mode = "sync")
          => inv'[s].pc = "refused"
C39_RunPlanRefused == [][C39_RunPlanStep]_vars

\* C40: every admitted run eventually emits run:done, when every timer fires,
\* every child exits by itself or once it is sent the hard-kill signal, and
\* every decision the run waits for is answered: an invocation that is past
\* admission gets to its run:done, or to the decision gate, where it is the
\* front-end's turn.
C40_RunEnds ==
    \A s \in Runs :
       InLoop(s) ~> (\/ inv[s].pc = "done" /\ HasEvent(events[inv[s].runId], "done")
                     \/ inv[s].pc = "decision")

====
